---- MODULE Spec2Model ----
(***************************************************************************)
(* The segmented narration player of the tour result view                  *)
(* (src/components/TourCard.tsx): React state and refs of one TourCard     *)
(* instance, the mount effect, loadSegment, the playlist-controller        *)
(* effect, toggleAudio, stopAudio and the effect cleanup.                  *)
(*                                                                         *)
(* One step of the model is one task of the browser's event loop: a click  *)
(* handler, a promise continuation, an "ended" event or a props change,    *)
(* together with the re-render it causes and every run of the controller   *)
(* effect that follows until React is quiescent again.                     *)
(*                                                                         *)
(* Segment indices are 0-based as in the code; segments[i + 1] is the      *)
(* code's segments[i].                                                     *)
(*                                                                         *)
(* The second part models the app shell (src/App.tsx: processTour,         *)
(* fetchDetails, resetApp) and the remote calls it awaits                  *)
(* (src/services/geminiService.ts). Spec explores the player with the app  *)
(* shell at rest, AppSpec the app shell with no player mounted, LiveSpec    *)
(* one uninterrupted listening under fair fetches and playback, and        *)
(* HistorySpec a visitor browsing the stored history.                      *)
(*                                                                         *)
(* Further parts: the fallback narrator of the earlier single-buffer view  *)
(* (src/unnamed/part_003, NativeSpec) and that view's AI audio with its    *)
(* operation lock (AudioSpec), the history store                           *)
(* (src/services/storageService.ts, StoreSpec) and the segment splitter    *)
(* the mount effect calls (SplitSpec).                                     *)
(***************************************************************************)
EXTENDS Integers, Sequences, FiniteSets, Bags, TLC

\* ---------------------------------------------------------------- bounds
MaxSegs == 3        \* most chunks the splitter returns for one narration
MaxSessions == 2    \* runs of the mount effect (landmark / language values)
MaxTime == 6        \* ticks of AudioContext.currentTime that are explored
MaxResumes == 2     \* toggle handlers suspended in `await ctx.resume()`
BufferTicks == 2    \* duration of every decoded chunk, in ticks
MaxCalls == 4       \* remote calls the app shell issues in one exploration
MaxReads == 2       \* FileReader loads pending together
MaxSelections == 2  \* history items opened in one exploration
MaxSaves == 3       \* saveHistoryItem calls in one exploration
MaxFailedSaves == 1 \* of them, calls whose first write fails
MaxTextLen == 5     \* characters of a narration text
MaxSpeaks == 3      \* utterances the fallback narrator creates
MaxVoiceEvents == 2 \* voiceschanged events of the browser
MaxMounts == 2      \* instances of the single-buffer view
MaxLandmarks == 2   \* landmark names one view instance is given

VARIABLES
    alive,               \* the component instance is mounted in React's tree
    isMountedRef,        \* isMountedRef.current
    session,             \* how many times the mount effect has run
    isPlaying,           \* useState
    isBuffering,         \* useState
    isAudioUnavailable,  \* useState
    segments,            \* useState: sequence of [status, buffer]
    currentSegmentIndex, \* useState
    ctxState,            \* audioContextRef.current: "none" or its .state
    ctxTime,             \* audioContextRef.current.currentTime
    sourceNodeRef,       \* sourceNodeRef.current
    started,             \* source nodes started and neither stopped nor ended
    startTimeRef,        \* startTimeRef.current
    pauseTimeRef,        \* pauseTimeRef.current
    inflight,            \* bag of generateAudioChunk calls not yet settled
    pendingResumes,      \* toggleAudio calls waiting in `await ctx.resume()`
    issued,              \* history: bag of indices fetched in this session
    done,                \* history: indices of this session that finished
                         \*   playing or were skipped as error
    absent0,             \* history: this session's fetch for index 0 has
                         \*   returned absent
    pausedAt,            \* history: segment and played time captured by the
                         \*   last user pause that no source start followed
    finished,            \* history: "yes" once the controller has gone past
                         \*   the last segment in this session, "replayed"
                         \*   once playing was set again after that
    chunks,              \* history: number of chunks the splitter returned
                         \*   to this session's mount effect
    late,                \* history: kinds of asynchronous completions
                         \*   handled after the instance was dropped
    tornFrom             \* history: what the player was doing when the
                         \*   instance was dropped ("mounted" before that)

\* The app shell (App.tsx) and the service module (geminiService.ts).
VARIABLES
    state,                  \* useState<AppState>
    errorMsg,               \* useState: "", "quotaError" or "error"
    identificationResult,   \* useState
    result,                 \* useState: the AnalysisResult shown
    isGeneratingAudio,      \* useState
    isAudioUnavailableApp,  \* useState isAudioUnavailable of App
    reading,                \* FileReader loads started and not yet done
    decodingContext,        \* module variable decodingContext: "none" or
                            \*   the context's .state
    calls,                  \* remote calls awaited: [id, fn, landmark,
                            \*   stage, requests]
    nextId,                 \* history: number of calls issued
    settled,                \* history: how each call ended: [id, fn, cause,
                            \*   value, requests]
    user,                   \* useState user: TRUE when signed in
    userHistory,            \* useState userHistory: landmark names of the
                            \*   stored items
    contexts,               \* history: number of decoding contexts created;
                            \*   the module variable holds the newest
    decodedWith             \* history: the contexts handed to
                            \*   decodeAudioData, by creation number

cardVars == <<alive, isMountedRef, session, isPlaying, isBuffering,
              isAudioUnavailable, segments, currentSegmentIndex, ctxState,
              ctxTime, sourceNodeRef, started, startTimeRef, pauseTimeRef,
              inflight, pendingResumes, issued, done, absent0, pausedAt,
              finished, chunks, late, tornFrom>>

appVars == <<state, errorMsg, identificationResult, result,
             isGeneratingAudio, isAudioUnavailableApp, reading,
             decodingContext, calls, nextId, settled, user, userHistory,
             contexts, decodedWith>>

accountVars == <<user, userHistory>>

\* The earlier, single-buffer result view (src/unnamed/part_003) with its
\* fallback narrator, and the browser's window.speechSynthesis it drives.
VARIABLES
    view,                   \* state and refs of the mounted view instance
    synth,                  \* window.speechSynthesis: voices, queue,
                            \*   paused flag, onvoiceschanged handler
    speakLog                \* history: one entry per utterance created by
                            \*   speakNative

nativeVars == <<view, synth, speakLog>>

\* The history store (src/services/storageService.ts) over localStorage.
VARIABLES
    stored,                 \* localStorage: for each user's key the list
                            \*   of item ids it holds (<<>> when absent)
    clock,                  \* Date.now(), the id of the newest item made
    savedFor,               \* history: for each user, the items handed to
                            \*   saveHistoryItem since the list was last
                            \*   cleared, newest first
    failed,                 \* history: for each user, whether a write
                            \*   failed since the list was last cleared
    lastSave,               \* history: the last saveHistoryItem call
    lastClear               \* history: the user whose list clearHistory
                            \*   removed since the last save ("" if none)

storeVars == <<stored, clock, savedFor, failed, lastSave, lastClear>>

\* The segment splitter the mount effect of TourCard calls.
VARIABLES
    detailedInfo,           \* result.detailedInfo: the narration text, a
                            \*   sequence of characters
    textChunks              \* the splitter's chunks; <<"unset">> before
                            \*   the call

splitVars == <<detailedInfo, textChunks>>

\* The AI-audio half of the single-buffer result view
\* (src/unnamed/part_003): the instances React has created, each with its
\* refs, and the playAudio calls waiting in `await ctx.resume()`.
VARIABLES
    cards,                  \* one record per view instance created so far
                            \*   (state, refs, props); the last one is the
                            \*   instance on screen, if it is mounted
    playCalls,              \* playAudio calls that took the lock and wait
                            \*   for ctx.resume()
    refused                 \* history: who was turned away by the lock
                            \*   ("click" or "auto")

audioVars == <<cards, playCalls, refused>>

outsideCard == <<appVars, nativeVars, storeVars, splitVars, audioVars>>
outsideApp == <<cardVars, nativeVars, storeVars, splitVars, audioVars>>
outsideNative == <<cardVars, appVars, storeVars, splitVars, audioVars>>
outsideStore == <<cardVars, appVars, nativeVars, splitVars, audioVars>>
outsideSplit == <<cardVars, appVars, nativeVars, storeVars, audioVars>>
outsideAudio == <<cardVars, appVars, nativeVars, storeVars, splitVars>>

vars == <<cardVars, appVars, nativeVars, storeVars, splitVars, audioVars>>

\* ------------------------------------------------------------ data values
\* buffer: null
NoBuf == [gen |-> 0, idx |-> 0 - 1]

\* The AudioBuffer decoded from the fetch that session g issued for index i.
BufferOf(g, i) == [gen |-> g, idx |-> i]

\* sourceNodeRef.current = null
NoSource == [idx |-> 0 - 1, buf |-> NoBuf, offset |-> 0, t0 |-> 0]

\* No user pause is waiting for its resume.
NoPause == [idx |-> 0 - 1, offset |-> 0]

\* AudioSegment as the mount effect creates it.
PendingSegment == [status |-> "pending", buffer |-> NoBuf]

\* An array slot that was never assigned (reads as undefined).
Hole == [status |-> "undefined", buffer |-> NoBuf]

\* splitTextForTTS(result.detailedInfo).length: the number of chunks of a
\* narration text; an empty or whitespace-only text yields none.
ChunkCounts == 0 .. MaxSegs

\* generateAudioChunk(text) resolves to a decoded buffer or to null and never
\* rejects.
FetchOutcomes == {"buffer", "absent"}

\* The component's state as one record, so that handlers are functions.
Cur ==
    [alive |-> alive, isMountedRef |-> isMountedRef, session |-> session,
     isPlaying |-> isPlaying, isBuffering |-> isBuffering,
     isAudioUnavailable |-> isAudioUnavailable, segments |-> segments,
     currentSegmentIndex |-> currentSegmentIndex, ctxState |-> ctxState,
     ctxTime |-> ctxTime, sourceNodeRef |-> sourceNodeRef,
     started |-> started, startTimeRef |-> startTimeRef,
     pauseTimeRef |-> pauseTimeRef, inflight |-> inflight,
     pendingResumes |-> pendingResumes, issued |-> issued, done |-> done,
     finished |-> finished, chunks |-> chunks]

\* The state before the first run of the mount effect (useState / useRef
\* initial values).
Blank ==
    [alive |-> TRUE, isMountedRef |-> TRUE, session |-> 0,
     isPlaying |-> FALSE, isBuffering |-> FALSE,
     isAudioUnavailable |-> FALSE, segments |-> <<>>,
     currentSegmentIndex |-> 0, ctxState |-> "none", ctxTime |-> 0,
     sourceNodeRef |-> NoSource, started |-> <<>>, startTimeRef |-> 0,
     pauseTimeRef |-> 0, inflight |-> EmptyBag, pendingResumes |-> 0,
     issued |-> EmptyBag, done |-> {}, finished |-> "no", chunks |-> 0]

\* ------------------------------------------------------------ JS helpers
\* newSegments[index] = v on a copy of the array: an index past the end
\* extends the array, leaving unassigned slots in between.
SetAt(segs, index, v) ==
    IF index < Len(segs)
    THEN [segs EXCEPT ![index + 1] = v]
    ELSE segs \o [k \in 1 .. (index - Len(segs)) |-> Hole] \o <<v>>

\* The sequence q without its first element equal to x.
RECURSIVE RemoveOne(_, _)
RemoveOne(q, x) ==
    IF q = <<>> THEN <<>>
    ELSE IF Head(q) = x THEN Tail(q)
    ELSE <<Head(q)>> \o RemoveOne(Tail(q), x)

\* Seconds of the buffer a source has reached: its start offset plus the
\* context time that has passed since source.start().
Elapsed(s, src) == src.offset + (s.ctxTime - src.t0)

\* getAudioContext(): creates the context on first use; `fresh` is the state
\* the browser gives a new context ("suspended" or "running").
getAudioContext(s, fresh) ==
    IF s.ctxState = "none" THEN [s EXCEPT !.ctxState = fresh] ELSE s

\* The control rendered in the header: spinner, muted icon or play/pause
\* button.
UIStatus(s) ==
    IF s.isBuffering \/ (Len(s.segments) = 0 /\ ~s.isAudioUnavailable)
    THEN "loading"
    ELSE IF s.isAudioUnavailable THEN "unavailable"
    ELSE "button"

\* ------------------------------------------------------------ loadSegment
\* loadSegment without the status guard: every call fetches.
loadSegmentUnguarded(s, index) ==
    IF index >= Len(s.segments) THEN s
    ELSE IF s.segments[index + 1].status = "undefined" THEN s
    ELSE [s EXCEPT
            !.segments[index + 1].status = "loading",
            !.inflight = @ (+) SetToBag({[gen |-> s.session, idx |-> index]}),
            !.issued = @ (+) SetToBag({index})]

\* loadSegment up to its await: the guard on the segment's status, the
\* marking as loading and the call of generateAudioChunk.
loadSegment(s, index) ==
    IF index >= Len(s.segments) THEN s
    ELSE IF s.segments[index + 1].status = "undefined" THEN s
    ELSE IF s.segments[index + 1].status # "pending" THEN s
    ELSE [s EXCEPT
            !.segments[index + 1].status = "loading",
            !.inflight = @ (+) SetToBag({[gen |-> s.session, idx |-> index]}),
            !.issued = @ (+) SetToBag({index})]

\* ------------------------------------------------------- teardown helpers
\* stopAudio() without `sourceNodeRef.current = null`.
stopAudioKeepsRef(s) ==
    [s EXCEPT
        !.started = IF s.sourceNodeRef # NoSource
                    THEN RemoveOne(@, s.sourceNodeRef) ELSE @,
        !.isPlaying = FALSE,
        !.isBuffering = FALSE,
        !.pauseTimeRef = 0,
        !.currentSegmentIndex = 0]

\* stopAudio()
stopAudio(s) ==
    [s EXCEPT
        !.started = IF s.sourceNodeRef # NoSource
                    THEN RemoveOne(@, s.sourceNodeRef) ELSE @,
        !.sourceNodeRef = NoSource,
        !.isPlaying = FALSE,
        !.isBuffering = FALSE,
        !.pauseTimeRef = 0,
        !.currentSegmentIndex = 0]

\* The cleanup without audioContextRef.current.close().
cleanupLeavesContext(s) == stopAudio([s EXCEPT !.isMountedRef = FALSE])

\* The cleanup function of the mount effect.
cleanup(s) ==
    LET s1 == stopAudio([s EXCEPT !.isMountedRef = FALSE])
    IN  [s1 EXCEPT !.ctxState = IF @ = "none" THEN "none" ELSE "closed"]

\* Unmounting the component: the cleanup runs and React drops the instance,
\* after which its state setters do nothing.
unmount(s) == [cleanup(s) EXCEPT !.alive = FALSE]

\* ------------------------------------------------ the playlist controller
\* No preloading at all.
preloadNextNever(s) == s

\* "PRELOAD NEXT SEGMENT" in the ready branch.
preloadNext(s) ==
    IF s.currentSegmentIndex + 1 < Len(s.segments)
    THEN loadSegment(s, s.currentSegmentIndex + 1)
    ELSE s

\* The guard forgotten: the effect never sees a source as playing.
alreadyPlayingIgnored(s) == FALSE

\* "If already playing this segment physically, do nothing".
alreadyPlaying(s) == s.sourceNodeRef # NoSource

\* The ready branch of the controller effect: start a source for the
\* current segment at the paused offset, then preload the next segment.
startSegment(s) ==
    LET s1  == getAudioContext(s, "suspended")
        seg == s1.segments[s1.currentSegmentIndex + 1]
        src == [idx |-> s1.currentSegmentIndex, buf |-> seg.buffer,
                offset |-> s1.pauseTimeRef, t0 |-> s1.ctxTime]
        s2  == [s1 EXCEPT
                  !.isBuffering = FALSE,
                  !.started = Append(@, src),
                  !.startTimeRef = s1.ctxTime - s1.pauseTimeRef,
                  !.sourceNodeRef = src]
    IN  preloadNext(s2)

\* The finished branch without setCurrentSegmentIndex(0).
finishedBranchKeepsIndex(s) ==
    [s EXCEPT !.isPlaying = FALSE, !.pauseTimeRef = 0, !.finished = "yes"]

\* "Check if finished": the branch taken when currentSegmentIndex is past
\* the last segment.
finishedBranch(s) ==
    [s EXCEPT !.isPlaying = FALSE, !.currentSegmentIndex = 0,
              !.pauseTimeRef = 0, !.finished = "yes"]

\* The controller effect, run again after every state change it makes
\* itself, until it changes nothing. Reading .status of an unassigned slot
\* throws inside the effect, on which React unmounts the tree.
RECURSIVE playlistController(_)
playlistController(s) ==
    IF ~s.isPlaying THEN s
    ELSE IF s.currentSegmentIndex >= Len(s.segments)
    THEN finishedBranch(s)
    ELSE IF alreadyPlaying(s) THEN s
    ELSE LET seg == s.segments[s.currentSegmentIndex + 1] IN
         IF seg.status = "undefined" THEN unmount(s)
         ELSE IF seg.status = "ready" /\ seg.buffer # NoBuf
         THEN startSegment(s)
         ELSE IF seg.status = "pending"
         THEN loadSegment([s EXCEPT !.isBuffering = TRUE],
                          s.currentSegmentIndex)
         ELSE IF seg.status = "loading"
         THEN [s EXCEPT !.isBuffering = TRUE]
         ELSE IF seg.status = "error"
         THEN playlistController(
                [s EXCEPT !.currentSegmentIndex = @ + 1,
                          !.done = @ \cup {s.currentSegmentIndex}])
         ELSE s

\* onended without setCurrentSegmentIndex: the source is forgotten and the
\* controller is never moved on.
onendedStays(s, src) ==
    [s EXCEPT !.started = RemoveOne(@, src), !.sourceNodeRef = NoSource]

\* source.onended of source src: natural completion of its audio.
onended(s, src) ==
    LET s1 == [s EXCEPT !.started = RemoveOne(@, src),
                        !.sourceNodeRef = NoSource]
    IN  IF s1.isMountedRef
        THEN playlistController(
               [s1 EXCEPT !.pauseTimeRef = 0,
                          !.currentSegmentIndex = @ + 1,
                          !.done = @ \cup {src.idx}])
        ELSE s1

\* ------------------------------------------------------------ toggleAudio
\* The pause branch with `onended = null` left out: stop() then delivers the
\* "ended" event to the handler, which runs after the click handler.
pauseBranchKeepsHandler(s) ==
    LET s1 == IF s.sourceNodeRef # NoSource /\ s.ctxState # "none"
              THEN [s EXCEPT
                      !.started = RemoveOne(@, s.sourceNodeRef),
                      !.pauseTimeRef = s.ctxTime - s.startTimeRef,
                      !.sourceNodeRef = NoSource]
              ELSE s
        s2 == [s1 EXCEPT !.isPlaying = FALSE, !.isBuffering = FALSE]
    IN  IF s.sourceNodeRef # NoSource /\ s.ctxState # "none"
        THEN onended(s2, s.sourceNodeRef)
        ELSE s2

\* The pause branch of toggleAudio.
pauseBranch(s) ==
    LET s1 == IF s.sourceNodeRef # NoSource /\ s.ctxState # "none"
              THEN [s EXCEPT
                      !.started = RemoveOne(@, s.sourceNodeRef),
                      !.pauseTimeRef = s.ctxTime - s.startTimeRef,
                      !.sourceNodeRef = NoSource]
              ELSE s
    IN  playlistController([s1 EXCEPT !.isPlaying = FALSE,
                                      !.isBuffering = FALSE])

\* setIsPlaying(true) at the end of the play branch.
play(s) ==
    [s EXCEPT !.isPlaying = TRUE,
              !.finished = IF @ = "yes" THEN "replayed" ELSE @]

\* toggleAudio up to its await (or to its end when the context needs no
\* resume).
toggleAudio(s, fresh) ==
    IF s.isPlaying THEN pauseBranch(s)
    ELSE LET s1 == getAudioContext(s, fresh) IN
         IF s1.ctxState = "suspended"
         THEN [s1 EXCEPT !.pendingResumes = @ + 1]
         ELSE playlistController(play(s1))

\* The rest of toggleAudio after `await ctx.resume()` settled; ok says
\* whether the promise resolved.
afterResume(s, ok) ==
    LET s1 == [s EXCEPT
                 !.pendingResumes = @ - 1,
                 !.ctxState = IF @ = "suspended" /\ ok THEN "running" ELSE @]
    IN  IF s1.alive /\ ~s1.isPlaying
        THEN playlistController(play(s1))
        ELSE s1

\* ------------------------------------------- loadSegment after its await
\* A chunk that arrives becomes the current one: playback follows the order
\* in which fetches resolve.
afterFetchJumps(s, index, buffer) ==
    IF ~s.isMountedRef \/ ~s.alive THEN s
    ELSE LET old == IF index < Len(s.segments)
                    THEN s.segments[index + 1] ELSE Hole
         IN  IF buffer # NoBuf
             THEN playlistController(
                    [s EXCEPT !.segments =
                        SetAt(@, index, [status |-> "ready",
                                         buffer |-> buffer]),
                              !.currentSegmentIndex = index])
             ELSE playlistController(
                    [s EXCEPT
                       !.segments =
                          SetAt(@, index, [status |-> "error",
                                           buffer |-> old.buffer]),
                       !.isAudioUnavailable = IF index = 0 THEN TRUE ELSE @])

\* The test `index === 0` left out: any failed chunk marks the audio
\* unavailable.
afterFetchFlagsAny(s, index, buffer) ==
    IF ~s.isMountedRef \/ ~s.alive THEN s
    ELSE LET old == IF index < Len(s.segments)
                    THEN s.segments[index + 1] ELSE Hole
         IN  IF buffer # NoBuf
             THEN playlistController(
                    [s EXCEPT !.segments =
                        SetAt(@, index, [status |-> "ready",
                                         buffer |-> buffer])])
             ELSE playlistController(
                    [s EXCEPT
                       !.segments =
                          SetAt(@, index, [status |-> "error",
                                           buffer |-> old.buffer]),
                       !.isAudioUnavailable = TRUE])

\* The test of isMountedRef left out and the state kept outside React: a
\* fetch that settles writes its result whatever happened to the view.
afterFetchUnguarded(s, index, buffer) ==
    LET old == IF index < Len(s.segments)
               THEN s.segments[index + 1] ELSE Hole
    IN  IF buffer # NoBuf
        THEN [s EXCEPT !.segments =
                 SetAt(@, index, [status |-> "ready", buffer |-> buffer])]
        ELSE [s EXCEPT
                !.segments =
                   SetAt(@, index, [status |-> "error",
                                    buffer |-> old.buffer]),
                !.isAudioUnavailable = IF index = 0 THEN TRUE ELSE @]

\* The rest of loadSegment(index) after generateAudioChunk resolved with
\* buffer (NoBuf for null). The code tests isMountedRef only; a setter of an
\* instance React has dropped does nothing.
afterFetch(s, index, buffer) ==
    IF ~s.isMountedRef \/ ~s.alive THEN s
    ELSE LET old == IF index < Len(s.segments)
                    THEN s.segments[index + 1] ELSE Hole
         IN  IF buffer # NoBuf
             THEN playlistController(
                    [s EXCEPT !.segments =
                        SetAt(@, index, [status |-> "ready",
                                         buffer |-> buffer])])
             ELSE playlistController(
                    [s EXCEPT
                       !.segments =
                          SetAt(@, index, [status |-> "error",
                                           buffer |-> old.buffer]),
                       !.isAudioUnavailable = IF index = 0 THEN TRUE ELSE @])

\* ------------------------------------------------------- the mount effect
\* The body of the mount effect for a narration of n chunks.
mountEffect(s, n) ==
    LET s1 == [s EXCEPT
                 !.isMountedRef = TRUE,
                 !.session = @ + 1,
                 !.segments = [k \in 1 .. n |-> PendingSegment],
                 !.issued = EmptyBag,
                 !.done = {},
                 !.finished = "no",
                 !.chunks = n]
    IN  IF n > 0 THEN loadSegment(s1, 0)
        ELSE [s1 EXCEPT !.isAudioUnavailable = TRUE]

\* result.landmarkName or langCode changed while mounted: cleanup, then the
\* effect body again, then the render of the state they set.
depsChanged(s, n) == playlistController(mountEffect(cleanup(s), n))

\* ------------------------------------------------- app shell: data values
\* identificationResult = null
NoIdentification == [name |-> "", confident |-> FALSE]

\* result = null
NoResult == [landmarkName |-> "", audioBuffer |-> "null"]

\* Landmark names the identification call returns or the user picks.
Landmarks == {"A", "B"}

\* sourceNodeRef.current / utteranceRef.current / onvoiceschanged === null
NoNode == 0

\* The view instance right after its first render, before any effect.
BlankView ==
    [mounted |-> TRUE, instance |-> 1, landmark |-> 1, isPlaying |-> FALSE,
     utteranceRef |-> NoNode, sourceNodeRef |-> NoNode,
     audioContextRef |-> "none", pauseTimeRef |-> 0,
     playing |-> {}, onended |-> {}]

\* window.speechSynthesis of a page that has not spoken yet.
BlankSynth(hasVoices) ==
    [voices |-> hasVoices, onvoiceschanged |-> NoNode, queue |-> <<>>,
     speaking |-> NoNode, paused |-> FALSE, cancelled |-> {}, events |-> 0]

\* No instance of the single-buffer view has played AI audio.
AudioAtRest ==
    /\ cards = <<>>
    /\ playCalls = {}
    /\ refused = {}

\* No view of this kind is mounted and nothing was spoken.
NarratorAtRest ==
    /\ view = [BlankView EXCEPT !.mounted = FALSE]
    /\ synth = BlankSynth(FALSE)
    /\ speakLog = <<>>

\* textChunks before splitTextForTTS has been called.
Unset == <<"unset">>

\* No narration text has been split.
SplitAtRest ==
    /\ detailedInfo = <<>>
    /\ textChunks = Unset

\* The user keys of localStorage.
Users == {"u1", "u2"}

\* lastSave before the first call.
NoSave == [user |-> "", thrown |-> FALSE]

\* A key that does not depend on the user.
keyShared(email) == <<"snaptour_history_", "">>

\* const key = `snaptour_history_${email}`
key(email) == <<"snaptour_history_", email>>

\* The history keys of localStorage.
Keys == {key(u) : u \in Users}

\* Nothing is stored and nothing was saved.
StoreAtRest ==
    /\ stored = [k \in Keys |-> <<>>]
    /\ clock = 0
    /\ savedFor = [u \in Users |-> <<>>]
    /\ failed = [u \in Users |-> FALSE]
    /\ lastSave = NoSave
    /\ lastClear = ""

\* The useState initial values of App and the service module as loaded.
AppAtRest ==
    /\ state = "IDLE"
    /\ errorMsg = ""
    /\ identificationResult = NoIdentification
    /\ result = NoResult
    /\ isGeneratingAudio = FALSE
    /\ isAudioUnavailableApp = FALSE
    /\ reading = 0
    /\ decodingContext = "none"
    /\ calls = {}
    /\ nextId = 0
    /\ settled = {}
    /\ user = FALSE
    /\ userHistory = {}
    /\ contexts = 0
    /\ decodedWith = {}

\* ---------------------------------------------------------------- actions
\* r is the component state after the step; p the pause captured by the
\* step (NoPause if none); a whether this session's fetch for index 0
\* returned absent in the step.
Install(r, p, a) ==
    /\ alive' = r.alive
    /\ isMountedRef' = r.isMountedRef
    /\ session' = r.session
    /\ isPlaying' = r.isPlaying
    /\ isBuffering' = r.isBuffering
    /\ isAudioUnavailable' = r.isAudioUnavailable
    /\ segments' = r.segments
    /\ currentSegmentIndex' = r.currentSegmentIndex
    /\ ctxState' = r.ctxState
    /\ ctxTime' = r.ctxTime
    /\ sourceNodeRef' = r.sourceNodeRef
    /\ started' = r.started
    /\ startTimeRef' = r.startTimeRef
    /\ pauseTimeRef' = r.pauseTimeRef
    /\ inflight' = r.inflight
    /\ pendingResumes' = r.pendingResumes
    /\ issued' = r.issued
    /\ done' = r.done
    /\ absent0' = IF r.session # session THEN FALSE ELSE (absent0 \/ a)
    /\ pausedAt' = IF r.session # session \/ ~r.alive THEN NoPause
                   ELSE IF p # NoPause THEN p
                   ELSE IF r.sourceNodeRef # NoSource
                           /\ r.sourceNodeRef # sourceNodeRef THEN NoPause
                   ELSE pausedAt
    /\ finished' = r.finished
    /\ chunks' = r.chunks
    /\ late' = late
                \cup (IF ~alive /\ BagCardinality(r.inflight)
                                     < BagCardinality(inflight)
                      THEN {"fetch"} ELSE {})
                \cup (IF ~alive /\ r.pendingResumes < pendingResumes
                      THEN {"resume"} ELSE {})
    /\ tornFrom' = IF alive /\ ~r.alive
                   THEN (IF sourceNodeRef # NoSource THEN "playing"
                         ELSE IF isBuffering THEN "loading"
                         ELSE IF pausedAt # NoPause THEN "paused"
                         ELSE "idle")
                   ELSE tornFrom
    /\ UNCHANGED outsideCard

Init ==
    \E n \in ChunkCounts :
        LET r == mountEffect(Blank, n) IN
        /\ alive = r.alive
        /\ isMountedRef = r.isMountedRef
        /\ session = r.session
        /\ isPlaying = r.isPlaying
        /\ isBuffering = r.isBuffering
        /\ isAudioUnavailable = r.isAudioUnavailable
        /\ segments = r.segments
        /\ currentSegmentIndex = r.currentSegmentIndex
        /\ ctxState = r.ctxState
        /\ ctxTime = r.ctxTime
        /\ sourceNodeRef = r.sourceNodeRef
        /\ started = r.started
        /\ startTimeRef = r.startTimeRef
        /\ pauseTimeRef = r.pauseTimeRef
        /\ inflight = r.inflight
        /\ pendingResumes = r.pendingResumes
        /\ issued = r.issued
        /\ done = r.done
        /\ absent0 = FALSE
        /\ pausedAt = NoPause
        /\ finished = r.finished
        /\ chunks = r.chunks
        /\ late = {}
        /\ tornFrom = "mounted"
        /\ AppAtRest
        /\ NarratorAtRest
        /\ StoreAtRest
        /\ SplitAtRest
        /\ AudioAtRest

\* The user clicks the play/pause button (rendered only when neither the
\* spinner nor the muted icon is).
Toggle ==
    /\ alive
    /\ UIStatus(Cur) = "button"
    /\ \E fresh \in {"suspended", "running"} :
         /\ toggleAudio(Cur, fresh).pendingResumes <= MaxResumes
         /\ Install(toggleAudio(Cur, fresh),
                    IF isPlaying /\ sourceNodeRef # NoSource
                    THEN [idx |-> currentSegmentIndex,
                          offset |-> Elapsed(Cur, sourceNodeRef)]
                    ELSE NoPause,
                    FALSE)

\* A pending ctx.resume() settles.
ResumeSettles ==
    /\ pendingResumes > 0
    /\ \E ok \in BOOLEAN : Install(afterResume(Cur, ok), NoPause, FALSE)

\* A pending generateAudioChunk call settles, with a buffer or with null.
FetchSettles ==
    \E f \in BagToSet(inflight) : \E outcome \in FetchOutcomes :
        LET s1 == [Cur EXCEPT !.inflight = @ (-) SetToBag({f})]
            b  == IF outcome = "buffer" THEN BufferOf(f.gen, f.idx) ELSE NoBuf
        IN  Install(afterFetch(s1, f.idx, b), NoPause,
                    f.gen = session /\ f.idx = 0 /\ outcome = "absent")

\* The running context's clock advances while a source is emitting.
ClockAdvances ==
    /\ ctxState = "running"
    /\ \E k \in 1 .. Len(started) : Elapsed(Cur, started[k]) < BufferTicks
    /\ ctxTime' = ctxTime + 1
    /\ UNCHANGED <<alive, isMountedRef, session, isPlaying, isBuffering,
                   isAudioUnavailable, segments, currentSegmentIndex,
                   ctxState, sourceNodeRef, started, startTimeRef,
                   pauseTimeRef, inflight, pendingResumes, issued, done,
                   absent0, pausedAt, finished, chunks, late, tornFrom>>
    /\ UNCHANGED outsideCard

\* The clock advances within the time explored.
Tick == ctxTime < MaxTime /\ ClockAdvances

\* A source reaches the end of its buffer and its "ended" event is handled.
SegmentEnds ==
    /\ ctxState = "running"
    /\ \E k \in 1 .. Len(started) :
         /\ Elapsed(Cur, started[k]) >= BufferTicks
         /\ Install(onended(Cur, started[k]), NoPause, FALSE)

\* The view is re-rendered with another landmark or language.
DepsChange ==
    /\ alive
    /\ session < MaxSessions
    /\ \E n \in ChunkCounts : Install(depsChanged(Cur, n), NoPause, FALSE)

\* The view is torn down.
Unmount ==
    /\ alive
    /\ Install(unmount(Cur), NoPause, FALSE)

Next ==
    \/ Toggle
    \/ ResumeSettles
    \/ FetchSettles
    \/ Tick
    \/ SegmentEnds
    \/ DepsChange
    \/ Unmount

Spec == Init /\ [][Next]_vars

\* One uninterrupted listening: the user presses play once (the first click,
\* before any context exists) and then neither pauses nor leaves, and the
\* landmark and language stay as they are.
PlayOnce == ctxState = "none" /\ Toggle

LiveNext ==
    \/ PlayOnce
    \/ ResumeSettles
    \/ FetchSettles
    \/ ClockAdvances
    \/ SegmentEnds

\* Every promise settles, the clock of a running context goes on and every
\* source that reached its end delivers its "ended" event.
LiveSpec ==
    /\ Init
    /\ [][LiveNext]_vars
    /\ WF_vars(ResumeSettles)
    /\ WF_vars(FetchSettles)
    /\ WF_vars(ClockAdvances)
    /\ WF_vars(SegmentEnds)

\* --------------------------------------- the service (geminiService.ts)
\* How the request of identifyLandmarkFromImage can end: a parsed answer
\* with confidence at or above / below the app's threshold, no text, text
\* that is not JSON, a rate-limit error, any other error.
IdentifyOutcomes ==
    {"confident", "unsure", "empty", "badJson", "rateLimit", "network"}

\* How the request of getLandmarkDetails can end.
DetailsOutcomes == {"ok", "rateLimit", "network"}

\* How the request of generateNarrationAudio can end: an answer with or
\* without inline audio data, a rate-limit error, any other error.
AudioOutcomes == {"payload", "empty", "rateLimit", "network"}

\* decodeAudioData returns a buffer or throws (odd byte length, no frames).
DecodeOutcomes == {"decoded", "decodeFailed"}

\* identifyLandmarkFromImage: returns the parsed answer; its catch block
\* logs and rethrows.
identifyLandmarkFromImage(cause) ==
    IF cause \in {"confident", "unsure"} THEN "returned" ELSE "thrown"

\* getLandmarkDetails: returns text and sources; its catch block logs and
\* rethrows.
getLandmarkDetails(cause) ==
    IF cause = "ok" THEN "returned" ELSE "thrown"

\* The catch block written like the ones of the text calls: log and rethrow.
generateNarrationAudioRethrows(cause) ==
    IF cause = "decoded" THEN "buffer"
    ELSE IF cause = "empty" THEN "null"
    ELSE "thrown"

\* generateNarrationAudio: what the call resolves to, given how it went
\* (cause): the decoded buffer, or null from `if (!base64Audio)` and from
\* the catch block.
generateNarrationAudio(cause) ==
    IF cause = "decoded" THEN "buffer" ELSE "null"

\* The rate-limit test of the catch blocks of processTour and fetchDetails.
quotaExceeded(cause) == cause = "rateLimit"

\* A call that has just sent its one request.
NewCall(fn, landmark) ==
    [id |-> nextId, fn |-> fn, landmark |-> landmark, stage |-> "request",
     requests |-> 1, ctx |-> 0]

\* The record of how call c ended.
Ended(c, cause, value) ==
    [id |-> c.id, fn |-> c.fn, cause |-> cause, value |-> value,
     requests |-> c.requests]

\* ------------------------------------------------- the app shell (App.tsx)
\* handleImageSelect: starts reading the chosen file (PhotoInput is rendered
\* in IDLE only).
SelectImage ==
    /\ state = "IDLE"
    /\ reading < MaxReads
    /\ reading' = reading + 1
    /\ UNCHANGED <<state, errorMsg, identificationResult, result,
                   isGeneratingAudio, isAudioUnavailableApp,
                   decodingContext, calls, nextId, settled>>
    /\ UNCHANGED <<outsideApp, accountVars, contexts, decodedWith>>

\* reader.onload: processTour up to its await of the identification.
ReaderLoads ==
    /\ reading > 0
    /\ nextId < MaxCalls
    /\ reading' = reading - 1
    /\ state' = "ANALYZING_IMAGE"
    /\ calls' = calls \cup {NewCall("identify", "")}
    /\ nextId' = nextId + 1
    /\ UNCHANGED <<errorMsg, identificationResult, result,
                   isGeneratingAudio, isAudioUnavailableApp,
                   decodingContext, settled>>
    /\ UNCHANGED <<outsideApp, accountVars, contexts, decodedWith>>

\* fetchDetails(landmarkName) up to its await of the detail call, replacing
\* the settled call c (if any) in calls.
fetchDetails(landmarkName, rest) ==
    /\ state' = "FETCHING_DETAILS"
    /\ isAudioUnavailableApp' = FALSE
    /\ calls' = rest \cup {NewCall("details", landmarkName)}
    /\ nextId' = nextId + 1

\* The catch block of processTour and the outer one of fetchDetails.
surfaceError(cause) ==
    /\ errorMsg' = IF quotaExceeded(cause) THEN "quotaError" ELSE "error"
    /\ state' = "ERROR"

\* The identification settles: the rest of processTour.
IdentifySettles ==
    \E c \in calls : \E o \in IdentifyOutcomes : \E l \in Landmarks :
        /\ c.fn = "identify"
        /\ o = "confident" => nextId < MaxCalls
        /\ settled' = settled \cup
                        {Ended(c, o, identifyLandmarkFromImage(o))}
        /\ IF identifyLandmarkFromImage(o) = "returned"
           THEN /\ identificationResult' =
                       [name |-> l, confident |-> (o = "confident")]
                /\ errorMsg' = errorMsg
                /\ IF o = "confident"
                   THEN fetchDetails(l, calls \ {c})
                   ELSE /\ state' = "SELECTING_LANDMARK"
                        /\ calls' = calls \ {c}
                        /\ UNCHANGED <<isAudioUnavailableApp, nextId>>
           ELSE /\ surfaceError(o)
                /\ calls' = calls \ {c}
                /\ UNCHANGED <<identificationResult, isAudioUnavailableApp,
                               nextId>>
        /\ UNCHANGED <<result, isGeneratingAudio, reading, decodingContext>>
        /\ UNCHANGED <<outsideApp, accountVars, contexts, decodedWith>>

\* The user picks a landmark in the LandmarkSelector.
SelectLandmark ==
    /\ state = "SELECTING_LANDMARK"
    /\ identificationResult # NoIdentification
    /\ nextId < MaxCalls
    /\ \E l \in Landmarks : fetchDetails(l, calls)
    /\ UNCHANGED <<errorMsg, identificationResult, result,
                   isGeneratingAudio, reading, decodingContext, settled>>
    /\ UNCHANGED <<outsideApp, accountVars, contexts, decodedWith>>

\* The detail call settles: the rest of fetchDetails up to its await of the
\* narration audio (no user is signed in, so nothing is saved to history).
DetailsSettles ==
    \E c \in calls : \E o \in DetailsOutcomes :
        /\ c.fn = "details"
        /\ o = "ok" => nextId < MaxCalls
        /\ settled' = settled \cup {Ended(c, o, getLandmarkDetails(o))}
        /\ IF getLandmarkDetails(o) = "returned"
           THEN /\ result' = [landmarkName |-> c.landmark,
                              audioBuffer |-> "null"]
                /\ state' = "SHOWING_RESULT"
                /\ isGeneratingAudio' = TRUE
                /\ calls' = (calls \ {c}) \cup {NewCall("audio", c.landmark)}
                /\ nextId' = nextId + 1
                /\ UNCHANGED errorMsg
           ELSE /\ surfaceError(o)
                /\ isGeneratingAudio' = FALSE
                /\ calls' = calls \ {c}
                /\ UNCHANGED <<result, nextId>>
        /\ UNCHANGED <<identificationResult, isAudioUnavailableApp, reading,
                       decodingContext>>
        /\ UNCHANGED <<outsideApp, accountVars, contexts, decodedWith>>

\* The rest of fetchDetails with a setResult that does not compare the
\* landmark names.
narrationDoneAnyLandmark(c, cause) ==
    LET v == generateNarrationAudio(cause) IN
    /\ settled' = settled \cup {Ended(c, cause, v)}
    /\ calls' = calls \ {c}
    /\ isAudioUnavailableApp' = IF v = "buffer" THEN isAudioUnavailableApp
                                ELSE TRUE
    /\ result' = IF v # "thrown" /\ result # NoResult
                 THEN [result EXCEPT !.audioBuffer = v]
                 ELSE result
    /\ isGeneratingAudio' = FALSE

\* generateNarrationAudio of call c ends for the given cause, and the rest
\* of fetchDetails runs: the flag, the guarded setResult and the finally
\* block.
narrationDone(c, cause) ==
    LET v == generateNarrationAudio(cause) IN
    /\ settled' = settled \cup {Ended(c, cause, v)}
    /\ calls' = calls \ {c}
    /\ isAudioUnavailableApp' = IF v = "buffer" THEN isAudioUnavailableApp
                                ELSE TRUE
    /\ result' = IF v # "thrown" /\ result # NoResult
                       /\ result.landmarkName = c.landmark
                 THEN [result EXCEPT !.audioBuffer = v]
                 ELSE result
    /\ isGeneratingAudio' = FALSE

\* getDecodingContext() creating a context on every call, as the earlier
\* generateNarrationAudio did.
getDecodingContextPerCall(fresh) ==
    [state |-> fresh, id |-> contexts + 1, created |-> contexts + 1]

\* getDecodingContext(): the module's context, created on first use in the
\* state the browser gives it (fresh).
getDecodingContext(fresh) ==
    IF decodingContext = "none"
    THEN [state |-> fresh, id |-> contexts + 1, created |-> contexts + 1]
    ELSE [state |-> decodingContext, id |-> contexts, created |-> contexts]

\* The synthesis request of generateNarrationAudio settles; with a payload
\* the decoding context is fetched and either resumed first or used to
\* decode at once.
AudioRequestSettles ==
    \E c \in calls : \E o \in AudioOutcomes :
      \E fresh \in {"suspended", "running"} : \E d \in DecodeOutcomes :
        /\ c.fn = "audio"
        /\ c.stage = "request"
        /\ IF o # "payload"
           THEN /\ narrationDone(c, o)
                /\ UNCHANGED <<decodingContext, contexts, decodedWith>>
           ELSE LET audioContext == getDecodingContext(fresh)
                IN  /\ decodingContext' = audioContext.state
                    /\ contexts' = audioContext.created
                    /\ IF audioContext.state = "suspended"
                       THEN /\ calls' = (calls \ {c}) \cup
                                          {[c EXCEPT !.stage = "resume",
                                                     !.ctx = audioContext.id]}
                            /\ UNCHANGED <<settled, isAudioUnavailableApp,
                                           result, isGeneratingAudio,
                                           decodedWith>>
                       ELSE /\ narrationDone(c, d)
                            /\ decodedWith' =
                                   decodedWith \cup {audioContext.id}
        /\ UNCHANGED <<state, errorMsg, identificationResult, reading,
                       nextId>>
        /\ UNCHANGED <<outsideApp, accountVars>>

\* `await audioContext.resume()` of generateNarrationAudio settles.
AudioResumeSettles ==
    \E c \in calls : \E ok \in BOOLEAN : \E d \in DecodeOutcomes :
        /\ c.fn = "audio"
        /\ c.stage = "resume"
        /\ IF ok
           THEN /\ decodingContext' = "running"
                /\ narrationDone(c, d)
                /\ decodedWith' = decodedWith \cup {c.ctx}
           ELSE /\ narrationDone(c, "resumeFailed")
                /\ UNCHANGED <<decodingContext, decodedWith>>
        /\ UNCHANGED <<state, errorMsg, identificationResult, reading,
                       nextId, contexts>>
        /\ UNCHANGED <<outsideApp, accountVars>>

\* resetApp, from the brand logo of the header (rendered in every state),
\* the selector's cancel, the result view's reset or the error view's
\* button.
ResetApp ==
    /\ state' = "IDLE"
    /\ result' = NoResult
    /\ identificationResult' = NoIdentification
    /\ errorMsg' = ""
    /\ isGeneratingAudio' = FALSE
    /\ isAudioUnavailableApp' = FALSE
    /\ UNCHANGED <<reading, decodingContext, calls, nextId, settled>>
    /\ UNCHANGED <<outsideApp, accountVars, contexts, decodedWith>>

\* The History entry of the user menu (header, signed-in users).
ViewHistory ==
    /\ user
    /\ state' = "VIEWING_HISTORY"
    /\ UNCHANGED <<errorMsg, identificationResult, result,
                   isGeneratingAudio, isAudioUnavailableApp, reading,
                   decodingContext, calls, nextId, settled, user,
                   userHistory, contexts, decodedWith>>
    /\ UNCHANGED outsideApp

\* onClose of the HistoryView.
CloseHistory ==
    /\ state = "VIEWING_HISTORY"
    /\ state' = "IDLE"
    /\ UNCHANGED <<errorMsg, identificationResult, result,
                   isGeneratingAudio, isAudioUnavailableApp, reading,
                   decodingContext, calls, nextId, settled, user,
                   userHistory, contexts, decodedWith>>
    /\ UNCHANGED outsideApp

\* handleClearHistory, from the HistoryView.
ClearHistory ==
    /\ state = "VIEWING_HISTORY"
    /\ userHistory' = IF user THEN {} ELSE userHistory
    /\ UNCHANGED <<state, errorMsg, identificationResult, result,
                   isGeneratingAudio, isAudioUnavailableApp, reading,
                   decodingContext, calls, nextId, settled, user,
                   contexts, decodedWith>>
    /\ UNCHANGED outsideApp

\* handleHistorySelect up to its await of the narration audio; what
\* follows the await is narrationDone.
HistorySelect ==
    /\ state = "VIEWING_HISTORY"
    /\ nextId < MaxSelections
    /\ \E l \in userHistory :
        /\ result' = [landmarkName |-> l, audioBuffer |-> "null"]
        /\ calls' = calls \cup {NewCall("audio", l)}
    /\ state' = "SHOWING_RESULT"
    /\ isAudioUnavailableApp' = FALSE
    /\ isGeneratingAudio' = TRUE
    /\ nextId' = nextId + 1
    /\ UNCHANGED <<errorMsg, identificationResult, reading,
                   decodingContext, settled, user, userHistory, contexts,
                   decodedWith>>
    /\ UNCHANGED outsideApp

\* handleLogout, from the user menu.
Logout ==
    /\ user
    /\ user' = FALSE
    /\ userHistory' = {}
    /\ state' = IF state = "VIEWING_HISTORY" THEN "IDLE" ELSE state
    /\ UNCHANGED <<errorMsg, identificationResult, result,
                   isGeneratingAudio, isAudioUnavailableApp, reading,
                   decodingContext, calls, nextId, settled, contexts,
                   decodedWith>>
    /\ UNCHANGED outsideApp

\* The token callback of handleGoogleLogin: the user is signed in and the
\* stored history is read.
Login ==
    /\ ~user
    /\ user' = TRUE
    /\ userHistory' \in SUBSET Landmarks
    /\ UNCHANGED <<state, errorMsg, identificationResult, result,
                   isGeneratingAudio, isAudioUnavailableApp, reading,
                   decodingContext, calls, nextId, settled, contexts,
                   decodedWith>>
    /\ UNCHANGED outsideApp

\* No segmented player is mounted.
CardAtRest ==
    /\ alive = FALSE
    /\ isMountedRef = Blank.isMountedRef
    /\ session = Blank.session
    /\ isPlaying = Blank.isPlaying
    /\ isBuffering = Blank.isBuffering
    /\ isAudioUnavailable = Blank.isAudioUnavailable
    /\ segments = Blank.segments
    /\ currentSegmentIndex = Blank.currentSegmentIndex
    /\ ctxState = Blank.ctxState
    /\ ctxTime = Blank.ctxTime
    /\ sourceNodeRef = Blank.sourceNodeRef
    /\ started = Blank.started
    /\ startTimeRef = Blank.startTimeRef
    /\ pauseTimeRef = Blank.pauseTimeRef
    /\ inflight = Blank.inflight
    /\ pendingResumes = Blank.pendingResumes
    /\ issued = Blank.issued
    /\ done = Blank.done
    /\ absent0 = FALSE
    /\ pausedAt = NoPause
    /\ finished = Blank.finished
    /\ chunks = Blank.chunks
    /\ late = {}
    /\ tornFrom = "idle"

\* The app shell as loaded, with no result view mounted.
AppInit ==
    /\ AppAtRest
    /\ CardAtRest
    /\ NarratorAtRest
    /\ StoreAtRest
    /\ SplitAtRest
    /\ AudioAtRest

AppNext ==
    \/ SelectImage
    \/ ReaderLoads
    \/ IdentifySettles
    \/ SelectLandmark
    \/ DetailsSettles
    \/ AudioRequestSettles
    \/ AudioResumeSettles
    \/ ResetApp

AppSpec == AppInit /\ [][AppNext]_vars

\* The app shell as loaded by a visitor who may have a stored session (the
\* session-restore effect has run), browsing the stored history.
HistoryInit ==
    /\ state = "IDLE"
    /\ errorMsg = ""
    /\ identificationResult = NoIdentification
    /\ result = NoResult
    /\ isGeneratingAudio = FALSE
    /\ isAudioUnavailableApp = FALSE
    /\ reading = 0
    /\ decodingContext = "none"
    /\ calls = {}
    /\ nextId = 0
    /\ settled = {}
    /\ user \in BOOLEAN
    /\ userHistory \in IF user THEN SUBSET Landmarks ELSE {{}}
    /\ contexts = 0
    /\ decodedWith = {}
    /\ CardAtRest
    /\ NarratorAtRest
    /\ StoreAtRest
    /\ SplitAtRest
    /\ AudioAtRest

HistoryNext ==
    \/ ViewHistory
    \/ CloseHistory
    \/ ClearHistory
    \/ HistorySelect
    \/ Logout
    \/ Login
    \/ ResetApp
    \/ AudioRequestSettles
    \/ AudioResumeSettles

HistorySpec == HistoryInit /\ [][HistoryNext]_vars

\* --------------------- the fallback narrator (src/unnamed/part_003, view)
\* The three narrator variables as one value.
Narrator == [view |-> view, synth |-> synth, log |-> speakLog]

\* The set of elements of sequence q.
Range(q) == {q[i] : i \in DOMAIN q}

\* stopAiAudio() without `sourceNodeRef.current = null`.
stopAiAudioKeepsRef(v) ==
    IF v.sourceNodeRef # NoNode
    THEN [v EXCEPT !.onended = @ \ {v.sourceNodeRef},
                   !.playing = @ \ {v.sourceNodeRef}]
    ELSE v

\* stopAiAudio(): detach onended, stop() and disconnect() inside try/catch
\* (a node that already ended is simply not in `playing`), null the ref.
stopAiAudio(v) ==
    IF v.sourceNodeRef # NoNode
    THEN [v EXCEPT !.onended = @ \ {v.sourceNodeRef},
                   !.playing = @ \ {v.sourceNodeRef},
                   !.sourceNodeRef = NoNode]
    ELSE v

\* window.speechSynthesis.cancel(): the queue is emptied, every removed
\* utterance gets its error event later; the paused flag is not touched.
cancel(sy) ==
    [sy EXCEPT !.cancelled = @ \cup Range(sy.queue),
               !.queue = <<>>,
               !.speaking = NoNode]

\* setVoiceAndSpeak() of the utterance created by call c: handlers are
\* attached and window.speechSynthesis.speak(utterance) is requested.
setVoiceAndSpeak(n, c) ==
    [n EXCEPT !.synth.queue = Append(@, c),
              !.log[c].requests = @ + 1]

\* The handler speakNative stores in onvoiceschanged, without the line
\* that clears it.
voicesChangedHandlerStays(n) == setVoiceAndSpeak(n, n.synth.onvoiceschanged)

\* The handler speakNative stores in onvoiceschanged.
voicesChangedHandler(n) ==
    setVoiceAndSpeak([n EXCEPT !.synth.onvoiceschanged = NoNode],
                     n.synth.onvoiceschanged)

\* speakNative() with a non-empty result.detailedInfo.
speakNative(n) ==
    IF n.synth.paused /\ n.synth.queue # <<>>
    THEN [n EXCEPT !.synth.paused = FALSE, !.view.isPlaying = TRUE]
    ELSE
        LET c == Len(n.log) + 1
            old == n.synth.onvoiceschanged
            n1 == [n EXCEPT
                     !.synth = cancel(@),
                     !.view.utteranceRef = c,
                     !.log = Append(@, [voices |-> n.synth.voices,
                                        requests |-> 0, events |-> 0,
                                        replaced |-> FALSE,
                                        instance |-> n.view.instance])]
            n2 == IF ~n1.synth.voices
                  THEN [n1 EXCEPT
                          !.synth.onvoiceschanged = c,
                          !.log = [k \in DOMAIN @ |->
                                     IF k = old
                                     THEN [@[k] EXCEPT !.replaced = TRUE]
                                     ELSE @[k]]]
                  ELSE setVoiceAndSpeak(n1, c)
        IN  [n2 EXCEPT !.view.isPlaying = TRUE]

\* pauseNative()
pauseNative(n) ==
    IF n.synth.queue # <<>>
    THEN [n EXCEPT !.synth.paused = TRUE, !.view.isPlaying = FALSE]
    ELSE n

\* onend / onerror of the utterance of call c: setIsPlaying(false) and
\* utteranceRef.current = null, both of the instance that made the call.
utteranceOver(n, c) ==
    IF n.view.mounted /\ n.view.instance = n.log[c].instance
    THEN [n EXCEPT !.view.isPlaying = FALSE, !.view.utteranceRef = NoNode]
    ELSE n

\* The effect on [result.landmarkName]; it also runs on mount.
landmarkEffect(n) ==
    [n EXCEPT !.view = [stopAiAudio(@) EXCEPT !.isPlaying = FALSE,
                                              !.pauseTimeRef = 0,
                                              !.utteranceRef = NoNode],
              !.synth = cancel(@)]

\* The cleanup of the mount effect.
viewCleanup(n) ==
    [n EXCEPT !.view = [stopAiAudio(@) EXCEPT !.audioContextRef =
                                                  IF @ = "none" THEN "none"
                                                  ELSE "closed",
                                              !.utteranceRef = NoNode,
                                              !.mounted = FALSE],
              !.synth = cancel(@)]

\* The narrator variables take the values of n.
InstallNarrator(n) ==
    /\ view' = n.view
    /\ synth' = n.synth
    /\ speakLog' = n.log
    /\ UNCHANGED outsideNative

\* The audio button of a result with nativeTTSFallback, audio not loading
\* (handleAudioClick).
ClickNarrator ==
    /\ view.mounted
    /\ IF view.isPlaying
       THEN InstallNarrator(pauseNative(Narrator))
       ELSE /\ (synth.paused /\ synth.queue # <<>>) \/ Len(speakLog) < MaxSpeaks
            /\ InstallNarrator(speakNative(Narrator))

\* The browser's voiceschanged event; the list it announces may be empty.
VoicesChanged ==
    /\ synth.events < MaxVoiceEvents
    /\ \E hasVoices \in BOOLEAN :
        LET n == [Narrator EXCEPT
                    !.synth.voices = hasVoices,
                    !.synth.events = @ + 1,
                    !.log = [k \in DOMAIN @ |->
                               [@[k] EXCEPT !.events = @ + 1]]]
        IN  InstallNarrator(IF synth.onvoiceschanged # NoNode
                            THEN voicesChangedHandler(n)
                            ELSE n)

\* The synthesiser begins the utterance at the head of its queue (onstart).
UtteranceStarts ==
    /\ synth.queue # <<>>
    /\ synth.speaking = NoNode
    /\ ~synth.paused
    /\ LET c == Head(synth.queue)
           n == [Narrator EXCEPT !.synth.speaking = c]
       IN  InstallNarrator(
               IF view.mounted /\ view.instance = speakLog[c].instance
               THEN [n EXCEPT !.view.isPlaying = TRUE]
               ELSE n)

\* The utterance being spoken ends, or the synthesiser fails on the head
\* of its queue (onend / onerror).
UtteranceOver ==
    /\ synth.queue # <<>>
    /\ ~synth.paused
    /\ LET c == Head(synth.queue)
           n == [Narrator EXCEPT !.synth.queue = Tail(@),
                                 !.synth.speaking = NoNode]
       IN  InstallNarrator(utteranceOver(n, c))

\* The error event of an utterance removed by cancel().
CancelNotified ==
    \E c \in synth.cancelled :
        InstallNarrator(utteranceOver(
            [Narrator EXCEPT !.synth.cancelled = @ \ {c}], c))

\* The parent renders the view with another result.landmarkName.
LandmarkChanges ==
    /\ view.mounted
    /\ view.landmark < MaxLandmarks
    /\ InstallNarrator(landmarkEffect(
           [Narrator EXCEPT !.view.landmark = @ + 1]))

\* The parent stops rendering the view.
UnmountView ==
    /\ view.mounted
    /\ InstallNarrator(viewCleanup(Narrator))

\* The parent renders a view again: a new instance, whose effects run.
MountView ==
    /\ ~view.mounted
    /\ view.instance < MaxMounts
    /\ InstallNarrator(landmarkEffect(
           [Narrator EXCEPT !.view = [BlankView EXCEPT
                                        !.instance = view.instance + 1]]))

NativeInit ==
    /\ \E hasVoices \in BOOLEAN :
        LET n == landmarkEffect([view |-> BlankView,
                                 synth |-> BlankSynth(hasVoices),
                                 log |-> <<>>])
        IN  /\ view = n.view
            /\ synth = n.synth
            /\ speakLog = n.log
    /\ AppAtRest
    /\ CardAtRest
    /\ StoreAtRest
    /\ SplitAtRest
    /\ AudioAtRest

NativeNext ==
    \/ ClickNarrator
    \/ VoicesChanged
    \/ UtteranceStarts
    \/ UtteranceOver
    \/ CancelNotified
    \/ LandmarkChanges
    \/ UnmountView
    \/ MountView

NativeSpec == NativeInit /\ [][NativeNext]_vars

\* -------------------- the AI audio of the single-buffer view (part_003)
\* A view instance right after its first render: refs and state as in
\* BlankView, the lock free, and the props result.landmarkName (l),
\* result.audioBuffer (b: whether it is set) and isAudioLoading.
BlankCard(i, l, b, loading) ==
    [isAudioOpInProgress |-> FALSE, audioBuffer |-> b,
     isAudioLoading |-> loading, resuming |-> FALSE]
    @@ [BlankView EXCEPT !.instance = i, !.landmark = l]

\* What a handler of instance i works on: the instance and the calls and
\* counters around it.
World(i) == [card |-> cards[i], calls |-> playCalls, refused |-> refused]

\* A name for a new object: the least number that names none of those in
\* use.
NewName(used) == CHOOSE k \in 1 .. Cardinality(used) + 1 : k \notin used

\* The source nodes that a ref, a handler or the audio graph still holds.
NodesInUse ==
    UNION {cards[i].playing \cup cards[i].onended
              \cup {cards[i].sourceNodeRef} : i \in 1 .. Len(cards)}

\* getAudioContext() of the view: creates the context on first use, in the
\* state the browser gives it (fresh).
getViewAudioContext(c, fresh) ==
    IF c.audioContextRef = "none" THEN [c EXCEPT !.audioContextRef = fresh]
    ELSE c

\* unlockAudioContext(): a suspended context is asked to resume (not
\* awaited, rejection caught); the one-sample silent buffer it plays is not
\* a narration source and is not tracked.
unlockAudioContext(c, fresh) ==
    LET c1 == getViewAudioContext(c, fresh)
    IN  IF c1.audioContextRef = "suspended"
        THEN [c1 EXCEPT !.resuming = TRUE]
        ELSE c1

\* playAudio after its await: steps 2 to 6 and the finally block. The
\* setter of a dropped instance does nothing.
startSource(w) ==
    LET node == NewName(NodesInUse \cup w.card.playing)
    IN  [w EXCEPT !.card = [w.card EXCEPT
                              !.playing = @ \cup {node},
                              !.sourceNodeRef = node,
                              !.onended = @ \cup {node},
                              !.isPlaying = IF w.card.mounted THEN TRUE
                                            ELSE @,
                              !.isAudioOpInProgress = FALSE]]

\* The catch and finally blocks of playAudio.
playFailed(w) ==
    [w EXCEPT !.card = [w.card EXCEPT !.isPlaying = FALSE,
                                      !.isAudioOpInProgress = FALSE]]

\* playAudio() without the test of the lock.
playAudioUnlocked(w, fresh, who) ==
    IF ~w.card.audioBuffer THEN w
    ELSE LET c == getViewAudioContext(
                     stopAiAudio([w.card EXCEPT
                                    !.isAudioOpInProgress = TRUE]), fresh)
             w1 == [w EXCEPT !.card = c]
         IN  IF c.audioContextRef = "suspended"
             THEN [w1 EXCEPT !.calls = @ \cup
                      {[card |-> c.instance,
                        call |-> NewName({p.call : p \in w.calls})]}]
             ELSE startSource(w1)

\* playAudio() up to its await (or to its end, when the context needs no
\* resume); who called it is recorded when the lock turns the call away.
playAudio(w, fresh, who) ==
    IF ~w.card.audioBuffer THEN w
    ELSE IF w.card.isAudioOpInProgress
    THEN [w EXCEPT !.refused = @ \cup {who}]
    ELSE LET c == getViewAudioContext(
                     stopAiAudio([w.card EXCEPT
                                    !.isAudioOpInProgress = TRUE]), fresh)
             w1 == [w EXCEPT !.card = c]
         IN  IF c.audioContextRef = "suspended"
             THEN [w1 EXCEPT !.calls = @ \cup
                      {[card |-> c.instance,
                        call |-> NewName({p.call : p \in w.calls})]}]
             ELSE startSource(w1)

\* pauseAudio(); t is currentTime - startTimeRef.current (the clock is not
\* modelled here: 0 or some later time).
pauseAudio(c, t) ==
    IF c.isAudioOpInProgress THEN c
    ELSE IF c.sourceNodeRef # NoNode /\ c.audioContextRef # "none"
    THEN [stopAiAudio(c) EXCEPT !.pauseTimeRef = t, !.isPlaying = FALSE]
    ELSE c

\* handleAudioClick() for a result without nativeTTSFallback; with no
\* buffer it calls onGenerateAudio(), which is the parent's.
handleAudioClick(w, fresh, t) ==
    IF w.card.isAudioLoading THEN w
    ELSE LET w1 == [w EXCEPT !.card = unlockAudioContext(w.card, fresh)]
         IN  IF w1.card.audioBuffer
             THEN IF w1.card.isPlaying
                  THEN [w1 EXCEPT !.card = pauseAudio(w1.card, t)]
                  ELSE playAudio(w1, fresh, "click")
             ELSE w1

\* The auto-play effect (deps: result.audioBuffer, isAudioLoading).
autoPlayEffect(w, fresh) ==
    IF w.card.isAudioLoading THEN w
    ELSE IF /\ w.card.audioBuffer
            /\ ~w.card.isPlaying
            /\ w.card.sourceNodeRef = NoNode
            /\ ~w.card.isAudioOpInProgress
    THEN playAudio(w, fresh, "auto")
    ELSE IF w.card.audioBuffer /\ w.card.isAudioOpInProgress
    THEN [w EXCEPT !.refused = @ \cup {"auto"}]
    ELSE w

\* The effect on result.landmarkName and the unmount cleanup, as far as
\* they touch the instance (nothing is being spoken here, so their
\* speechSynthesis.cancel() changes nothing).
landmarkReset(c) == landmarkEffect([Narrator EXCEPT !.view = c]).view

cardCleanup(c) == viewCleanup([Narrator EXCEPT !.view = c]).view

\* React drops the instance after the cleanup: its state and props are
\* gone, its refs live on in the closures of calls that still wait.
dropCard(c) ==
    [cardCleanup(c) EXCEPT !.isPlaying = FALSE, !.landmark = 1,
                           !.audioBuffer = FALSE, !.isAudioLoading = FALSE,
                           !.resuming = FALSE]

\* source.onended of playAudio, if it is still attached to the node.
sourceEnded(c, node) ==
    LET c1 == [c EXCEPT !.playing = @ \ {node}, !.onended = @ \ {node}]
    IN  IF node \in c.onended
        THEN [c1 EXCEPT !.isPlaying = IF c.mounted THEN FALSE ELSE @,
                        !.pauseTimeRef = 0,
                        !.sourceNodeRef = NoNode]
        ELSE c1

\* The audio variables take the instances cs and the rest of w.
InstallAudio(cs, w) ==
    /\ cards' = cs
    /\ playCalls' = w.calls
    /\ refused' = w.refused
    /\ UNCHANGED outsideAudio

\* An instance is on screen.
OnScreen == cards # <<>> /\ cards[Len(cards)].mounted

\* The user clicks the audio button.
ClickAudio ==
    /\ OnScreen
    /\ ~cards[Len(cards)].isAudioLoading
    /\ \E fresh \in {"suspended", "running"} : \E t \in 0 .. 1 :
         LET w == handleAudioClick(World(Len(cards)), fresh, t)
         IN  InstallAudio([cards EXCEPT ![Len(cards)] = w.card], w)

\* The parent re-renders the view with other props: another landmark, a
\* buffer that arrived, went away or was replaced, the loading flag. The
\* auto-play effect runs before the landmark effect (declaration order).
PropsChange ==
    /\ OnScreen
    /\ \E l \in 1 .. MaxLandmarks : \E b \in BOOLEAN :
       \E loading \in BOOLEAN : \E replaced \in BOOLEAN :
       \E fresh \in {"suspended", "running"} :
         LET old == cards[Len(cards)]
             c0 == [old EXCEPT !.landmark = l, !.audioBuffer = b,
                               !.isAudioLoading = loading]
             w0 == [World(Len(cards)) EXCEPT !.card = c0]
             w1 == IF b # old.audioBuffer \/ loading # old.isAudioLoading
                      \/ replaced
                   THEN autoPlayEffect(w0, fresh) ELSE w0
             w2 == IF l # old.landmark
                   THEN [w1 EXCEPT !.card = landmarkReset(w1.card)] ELSE w1
         IN  /\ replaced => (b /\ old.audioBuffer)
             /\ c0 # old \/ replaced
             /\ InstallAudio([cards EXCEPT ![Len(cards)] = w2.card], w2)

\* The resume that unlockAudioContext asked for takes effect or is
\* rejected.
ContextRuns ==
    \E i \in 1 .. Len(cards) : \E ok \in BOOLEAN :
        /\ cards[i].resuming
        /\ cards' = [cards EXCEPT
                       ![i].resuming = FALSE,
                       ![i].audioContextRef =
                           IF ok /\ @ = "suspended" THEN "running" ELSE @]
        /\ UNCHANGED <<playCalls, refused>>
        /\ UNCHANGED outsideAudio

\* The resume a playAudio call awaits settles: resolved (the context runs,
\* unless it was closed meanwhile) or rejected; a context that already
\* runs resolves it.
PlayResumeSettles ==
    \E c \in playCalls : \E ok \in BOOLEAN :
        LET card == cards[c.card]
            c1 == [card EXCEPT !.audioContextRef =
                      IF ok /\ @ = "suspended" THEN "running" ELSE @]
            w == [World(c.card) EXCEPT !.card = c1, !.calls = @ \ {c}]
            r == IF ok THEN startSource(w) ELSE playFailed(w)
        IN  /\ card.audioContextRef = "running" => ok
            /\ InstallAudio([cards EXCEPT ![c.card] = r.card], r)

\* A source on a running context reaches the end of its buffer.
AudioSourceEnds ==
    \E i \in 1 .. Len(cards) : \E node \in cards[i].playing :
        /\ cards[i].audioContextRef = "running"
        /\ cards' = [cards EXCEPT ![i] = sourceEnded(@, node)]
        /\ UNCHANGED <<playCalls, refused>>
        /\ UNCHANGED outsideAudio

\* The view is taken off the screen.
UnmountCard ==
    /\ OnScreen
    /\ cards' = [cards EXCEPT ![Len(cards)] = dropCard(@)]
    /\ UNCHANGED <<playCalls, refused>>
    /\ UNCHANGED outsideAudio

\* A view is put on the screen: first render, then the auto-play effect
\* and the landmark effect.
MountCard ==
    /\ ~OnScreen
    /\ Len(cards) < MaxMounts
    /\ \E l \in 1 .. MaxLandmarks : \E b \in BOOLEAN :
       \E loading \in BOOLEAN : \E fresh \in {"suspended", "running"} :
         LET w0 == [card |-> BlankCard(Len(cards) + 1, l, b, loading),
                    calls |-> playCalls, refused |-> refused]
             w1 == autoPlayEffect(w0, fresh)
             w2 == [w1 EXCEPT !.card = landmarkReset(w1.card)]
         IN  InstallAudio(Append(cards, w2.card), w2)

AudioInit ==
    /\ AudioAtRest
    /\ AppAtRest
    /\ CardAtRest
    /\ NarratorAtRest
    /\ StoreAtRest
    /\ SplitAtRest

AudioNext ==
    \/ MountCard
    \/ ClickAudio
    \/ PropsChange
    \/ ContextRuns
    \/ PlayResumeSettles
    \/ AudioSourceEnds
    \/ UnmountCard

AudioSpec == AudioInit /\ [][AudioNext]_vars

\* ------------------------ the history store (services/storageService.ts)
\* The most items saveHistoryItem keeps.
HistoryCap == 50

\* How the first localStorage.setItem of a call can end: done, a
\* QuotaExceededError, any other exception.
WriteOutcomes == {"ok", "quota", "other"}

\* Lengths of the list an earlier visit has left in localStorage.
StoredLengths == {0, 1, HistoryCap - 1, HistoryCap}

\* The longest list the quota lets a retry write, as explored: nothing,
\* one or two items, or the list less its oldest three or its oldest one.
Fits == {0, 1, 2, HistoryCap - 3, HistoryCap - 1}

\* The list after n saves that all succeeded, newest first.
Newest(n) == [i \in 1 .. n |-> n + 1 - i]

\* The retry loop of the quota branch: pop the oldest item and write
\* again, until a write is accepted or one item is left. A list is
\* accepted when it is no longer than fit. Returns the list written (<<>>
\* when none was) and the number of writes attempted.
RECURSIVE trimUntilFits(_, _, _)
trimUntilFits(items, fit, writes) ==
    IF Len(items) > 1
    THEN LET popped == SubSeq(items, 1, Len(items) - 1) IN
         IF Len(popped) <= fit
         THEN [written |-> popped, writes |-> writes + 1]
         ELSE trimUntilFits(popped, fit, writes + 1)
    ELSE [written |-> <<>>, writes |-> writes]

\* The body of saveHistoryItem with a retry loop that drops from the
\* front of the list (shift instead of pop).
saveAttemptShifts(existing, item, first, fit) ==
    LET unshifted == <<item>> \o existing
        items == IF Len(unshifted) > HistoryCap
                 THEN SubSeq(unshifted, 1, HistoryCap)
                 ELSE unshifted
    IN  IF first = "ok"
        THEN [stored |-> items, thrown |-> FALSE, writes |-> 1]
        ELSE IF first = "quota"
        THEN LET t == trimUntilFits(items, fit, 1) IN
             [stored |-> IF t.written = <<>> THEN existing
                         ELSE SubSeq(items, Len(items) - Len(t.written) + 1,
                                     Len(items)),
              thrown |-> FALSE, writes |-> t.writes]
        ELSE [stored |-> existing, thrown |-> TRUE, writes |-> 1]

\* The body of saveHistoryItem without the cut to the newest 50 items.
saveAttemptUncut(existing, item, first, fit) ==
    LET items == <<item>> \o existing
    IN  IF first = "ok"
        THEN [stored |-> items, thrown |-> FALSE, writes |-> 1]
        ELSE IF first = "quota"
        THEN LET t == trimUntilFits(items, fit, 1) IN
             [stored |-> IF t.written = <<>> THEN existing ELSE t.written,
              thrown |-> FALSE, writes |-> t.writes]
        ELSE [stored |-> existing, thrown |-> TRUE, writes |-> 1]

\* The body of saveHistoryItem's outer try block: existing is the parsed
\* stored list, first the outcome of the first write, fit the longest
\* list a retry can write.
saveAttempt(existing, item, first, fit) ==
    LET unshifted == <<item>> \o existing
        items == IF Len(unshifted) > HistoryCap
                 THEN SubSeq(unshifted, 1, HistoryCap)
                 ELSE unshifted
    IN  IF first = "ok"
        THEN [stored |-> items, thrown |-> FALSE, writes |-> 1]
        ELSE IF first = "quota"
        THEN LET t == trimUntilFits(items, fit, 1) IN
             [stored |-> IF t.written = <<>> THEN existing ELSE t.written,
              thrown |-> FALSE, writes |-> t.writes]
        ELSE [stored |-> existing, thrown |-> TRUE, writes |-> 1]

\* saveHistoryItem without its outer try/catch.
saveHistoryItemUncaught(existing, item, first, fit) ==
    saveAttempt(existing, item, first, fit)

\* saveHistoryItem: the outer catch logs whatever the body throws.
saveHistoryItem(existing, item, first, fit) ==
    [saveAttempt(existing, item, first, fit) EXCEPT !.thrown = FALSE]

\* getHistory(email)
getHistory(email) == stored[key(email)]

\* A signed-in user's result is saved (fetchDetails calls saveHistoryItem).
Save ==
    \E u \in Users : \E first \in WriteOutcomes : \E fit \in Fits :
        LET item == clock + 1
            r == saveHistoryItem(getHistory(u), item, first, fit)
        IN  /\ clock < HistoryCap + MaxSaves
            /\ first # "quota" => fit = 0
            /\ first # "ok" =>
                   Cardinality({v \in Users : failed[v]}) < MaxFailedSaves
                   /\ ~failed[u]
            /\ clock' = item
            /\ stored' = [stored EXCEPT ![key(u)] = r.stored]
            /\ lastClear' = ""
            /\ savedFor' = [savedFor EXCEPT ![u] = <<item>> \o @]
            /\ failed' = [failed EXCEPT ![u] = @ \/ first # "ok"]
            /\ lastSave' = [user |-> u, item |-> item,
                            before |-> getHistory(u), first |-> first,
                            fit |-> fit, writes |-> r.writes,
                            thrown |-> r.thrown, after |-> r.stored]
            /\ UNCHANGED outsideStore

\* clearHistory(email)
ClearStored ==
    \E u \in Users :
        /\ getHistory(u) # <<>>
        /\ stored' = [stored EXCEPT ![key(u)] = <<>>]
        /\ lastClear' = u
        /\ savedFor' = [savedFor EXCEPT ![u] = <<>>]
        /\ failed' = [failed EXCEPT ![u] = FALSE]
        /\ UNCHANGED <<clock, lastSave>>
        /\ UNCHANGED outsideStore

\* localStorage as earlier visits left it: every user's list holds the
\* newest items of saves that succeeded.
StoreInit ==
    /\ \E n \in [Keys -> StoredLengths] :
        /\ stored = [k \in Keys |-> Newest(n[k])]
        /\ savedFor = [u \in Users |-> Newest(n[key(u)])]
    /\ clock = HistoryCap
    /\ failed = [u \in Users |-> FALSE]
    /\ lastSave = NoSave
    /\ lastClear = ""
    /\ AppAtRest
    /\ CardAtRest
    /\ NarratorAtRest
    /\ SplitAtRest
    /\ AudioAtRest

StoreNext ==
    \/ Save
    \/ ClearStored

StoreSpec == StoreInit /\ [][StoreNext]_vars

\* --------------------------------------- the segment splitter (spec 4.1)
\* The characters of the narration texts explored: two letters, the
\* sentence terminator and the blank.
Chars == {"a", "b", ".", " "}

\* The narration texts explored.
Texts == UNION {[1 .. n -> Chars] : n \in 0 .. MaxTextLen}

\* t without its leading blanks.
RECURSIVE TrimLeft(_)
TrimLeft(t) ==
    IF t # <<>> /\ Head(t) = " " THEN TrimLeft(Tail(t)) ELSE t

\* t without its trailing blanks.
RECURSIVE TrimRight(_)
TrimRight(t) ==
    IF t # <<>> /\ t[Len(t)] = " "
    THEN TrimRight(SubSeq(t, 1, Len(t) - 1))
    ELSE t

\* The sentences of t, in order: each ends after a run of terminators; the
\* text after the last terminator is a sentence too. cur is the sentence
\* being read.
RECURSIVE Sentences(_, _)
Sentences(t, cur) ==
    IF t = <<>>
    THEN IF cur = <<>> THEN <<>> ELSE <<cur>>
    ELSE IF Head(t) = "." /\ (Len(t) = 1 \/ t[2] # ".")
    THEN <<Append(cur, ".")>> \o Sentences(Tail(t), <<>>)
    ELSE Sentences(Tail(t), Append(cur, Head(t)))

\* Consecutive sentences joined two by two.
RECURSIVE TwoByTwo(_)
TwoByTwo(ss) ==
    IF Len(ss) <= 1 THEN ss
    ELSE <<ss[1] \o ss[2]>> \o TwoByTwo(SubSeq(ss, 3, Len(ss)))

\* A splitter that keeps only the sentences that end with a terminator.
splitTextForTTSTerminated(text) ==
    LET ss == Sentences(text, <<>>)
        whole == SelectSeq(ss, LAMBDA x : x[Len(x)] = ".")
        joined == TwoByTwo(whole)
        trimmed == [i \in DOMAIN joined |-> TrimRight(TrimLeft(joined[i]))]
    IN  SelectSeq(trimmed, LAMBDA c : c # <<>>)

\* splitTextForTTS(text): chunks of one or two sentences, trimmed, the
\* blank ones left out.
splitTextForTTS(text) ==
    LET joined == TwoByTwo(Sentences(text, <<>>))
        trimmed == [i \in DOMAIN joined |-> TrimRight(TrimLeft(joined[i]))]
    IN  SelectSeq(trimmed, LAMBDA c : c # <<>>)

\* The mount effect hands result.detailedInfo to the splitter.
SplitText ==
    /\ textChunks = Unset
    /\ textChunks' = splitTextForTTS(detailedInfo)
    /\ UNCHANGED detailedInfo
    /\ UNCHANGED outsideSplit

SplitInit ==
    /\ detailedInfo \in Texts
    /\ textChunks = Unset
    /\ AppAtRest
    /\ CardAtRest
    /\ NarratorAtRest
    /\ StoreAtRest
    /\ AudioAtRest

SplitNext == SplitText

SplitSpec == SplitInit /\ [][SplitNext]_vars

\* ----------------------------------------------------------------- claims
\* A source was started in this step.
SourceStarts ==
    sourceNodeRef' # NoSource /\ sourceNodeRef' # sourceNodeRef

\* The step is a user pause of an emitting source.
PauseStep == pausedAt = NoPause /\ pausedAt' # NoPause

\* The status of the code's segments[i] in sequence segs.
StatusAt(segs, i) == segs[i + 1].status

\* C1: in every reachable state at most one source node is started and not
\* yet stopped or ended, and it is the one sourceNodeRef holds.
C1_AtMostOneSource ==
    /\ Len(started) <= 1
    /\ started = IF sourceNodeRef = NoSource THEN <<>> ELSE <<sourceNodeRef>>

\* C1 witness: a source is emitting for a later segment after a pause and a
\* resume, i.e. after several starts and stops.
C1_Witness ==
    /\ session = 1
    /\ Len(started) = 1
    /\ sourceNodeRef.idx = 1
    /\ sourceNodeRef.offset > 0

\* C2: every started source plays a segment all of whose predecessors have
\* finished playing or were skipped as error in this session.
C2_InOrder ==
    \A k \in 1 .. Len(started) :
        \A i \in 0 .. (started[k].idx - 1) : i \in done

\* C2 witness: segment 2 is emitting after segment 0 played to its end and
\* segment 1, whose fetch failed, was skipped.
C2_Witness ==
    /\ session = 1
    /\ sourceNodeRef.idx = 2
    /\ done = {0, 1}
    /\ StatusAt(segments, 0) = "ready"
    /\ StatusAt(segments, 1) = "error"

\* C3: no two fetches issued by the same session for the same index are in
\* flight together, and a session issues at most one fetch per index.
C3_OneFetchPerIndex ==
    /\ \A f \in BagToSet(inflight) : CopiesIn(f, inflight) = 1
    /\ \A i \in BagToSet(issued) : CopiesIn(i, issued) = 1

\* C3 witness: segment 0 was resumed (the ready branch ran a second time and
\* called loadSegment for index 1 again) while the fetch for 1 is in flight.
C3_Witness ==
    /\ sourceNodeRef.idx = 0
    /\ sourceNodeRef.offset > 0
    /\ CopiesIn([gen |-> session, idx |-> 1], inflight) = 1

\* C4: the first source started after a user pause plays the paused segment
\* from the time that segment had been played when it was paused.
C4_ResumeSameSegmentAtOffset ==
    [][(pausedAt # NoPause /\ SourceStarts)
         => (sourceNodeRef'.idx = pausedAt.idx
             /\ sourceNodeRef'.offset = pausedAt.offset)]_vars

\* C5: a user pause keeps currentSegmentIndex and stores the played time;
\* any other step changes currentSegmentIndex only by resetting it to 0 or
\* by advancing over the segment whose source reached its end and over
\* segments in error.
C5_StopNeverAdvances ==
    [][/\ PauseStep =>
            (currentSegmentIndex' = currentSegmentIndex
             /\ pauseTimeRef' = pausedAt'.offset)
       /\ (currentSegmentIndex' # currentSegmentIndex) =>
            \/ currentSegmentIndex' = 0
            \/ /\ currentSegmentIndex' > currentSegmentIndex
               /\ \A i \in currentSegmentIndex .. (currentSegmentIndex' - 1) :
                    \/ /\ i = currentSegmentIndex
                       /\ sourceNodeRef # NoSource
                       /\ ctxState = "running"
                       /\ Elapsed(Cur, sourceNodeRef) >= BufferTicks
                    \/ /\ i < Len(segments')
                       /\ StatusAt(segments', i) = "error"]_vars

\* C5 witness: the user paused segment 1 in the middle.
C5_Witness ==
    /\ pausedAt # NoPause
    /\ pausedAt.idx = 1
    /\ pausedAt.offset = 1
    /\ currentSegmentIndex = 1
    /\ pauseTimeRef = 1
    /\ ~isPlaying

\* C6: the unavailable flag is raised only by a mount with no segments or by
\* a fetch for index 0 that settles; a source is started only for a ready
\* segment; and the controller never rests on a segment in error.
C6_FailureContained ==
    [][/\ (isAudioUnavailable' /\ ~isAudioUnavailable) =>
            \/ session' # session /\ Len(segments') = 0
            \/ \E f \in BagToSet(inflight) :
                  /\ f.idx = 0
                  /\ CopiesIn(f, inflight') < CopiesIn(f, inflight)
                  /\ StatusAt(segments', 0) = "error"
       /\ SourceStarts =>
            StatusAt(segments', sourceNodeRef'.idx) = "ready"
       /\ (isPlaying' /\ sourceNodeRef' = NoSource
             /\ currentSegmentIndex' < Len(segments')) =>
            StatusAt(segments', currentSegmentIndex') # "error"]_vars

\* C6 witness: segment 1 failed and was skipped, segment 2 is emitting after
\* segment 0 played, and the flag is still false.
C6_Witness ==
    /\ session = 1
    /\ Len(segments) = 3
    /\ StatusAt(segments, 1) = "error"
    /\ sourceNodeRef.idx = 2
    /\ 0 \in done
    /\ ~isAudioUnavailable

\* C7: once this session's fetch for chunk 0 has returned absent, the flag is
\* set and no source is started.
C7_NoPlayingAfterAbsent0 ==
    (alive /\ absent0) => (isAudioUnavailable /\ started = <<>>)

C9_UnavailableShown ==
    (alive /\ absent0) => UIStatus(Cur) = "unavailable"

\* C10: a step that starts a source for segment i while segment i+1 exists
\* and is pending also issues the fetch for i+1; and while a source is
\* emitting segment i, segment i+1 (if it exists) is not pending any more.
C10_NextPrefetched ==
    /\ [](sourceNodeRef # NoSource /\ sourceNodeRef.idx + 1 < Len(segments)
            => StatusAt(segments, sourceNodeRef.idx + 1) # "pending")
    /\ [][(/\ SourceStarts
            /\ session' = session
            /\ sourceNodeRef'.idx + 1 < Len(segments)
            /\ StatusAt(segments, sourceNodeRef'.idx + 1) = "pending")
           => (/\ StatusAt(segments', sourceNodeRef'.idx + 1) = "loading"
               /\ CopiesIn([gen |-> session, idx |-> sourceNodeRef'.idx + 1],
                           inflight') = 1
               /\ CopiesIn([gen |-> session, idx |-> sourceNodeRef'.idx + 1],
                           inflight) = 0)]_vars

\* C10 witness: segment 0 is emitting and the fetch for segment 1 is in
\* flight.
C10_Witness ==
    /\ sourceNodeRef.idx = 0
    /\ Len(segments) >= 2
    /\ StatusAt(segments, 1) = "loading"
    /\ CopiesIn([gen |-> session, idx |-> 1], inflight) = 1

\* C11: a session whose narration yields no chunk has the unavailable flag
\* set from its mount on, never calls the chunk fetcher and never has a
\* started source.
C11_EmptyNeverFetchesNorPlays ==
    chunks = 0 =>
        (isAudioUnavailable /\ issued = EmptyBag /\ started = <<>>)

\* The segments a mount effect leaves: pending, or loading with no buffer.
FreshSegment(seg) ==
    seg.buffer = NoBuf /\ seg.status \in {"pending", "loading"}

\* C12: a change of landmark or language leaves index 0, not playing,
\* offset 0, no source and only fresh segments; and a fetch issued by an
\* earlier session that settles changes no segment of the current session.
C12_ChangeDiscardsOldSession ==
    [][/\ session' # session =>
            /\ currentSegmentIndex' = 0
            /\ ~isPlaying'
            /\ pauseTimeRef' = 0
            /\ sourceNodeRef' = NoSource
            /\ started' = <<>>
            /\ \A k \in 1 .. Len(segments') : FreshSegment(segments'[k])
       /\ \A f \in BagToSet(inflight) :
            (f.gen # session /\ CopiesIn(f, inflight') < CopiesIn(f, inflight))
                => segments' = segments]_vars

C14_TeardownReleasesAudio ==
    /\ [](~alive => /\ sourceNodeRef = NoSource
                    /\ started = <<>>
                    /\ ctxState \in {"none", "closed"})
    /\ [][((alive /\ ~alive') \/ session' # session)
            => /\ started' = <<>>
               /\ sourceNodeRef' = NoSource
               /\ ctxState # "none" => ctxState' = "closed"]_vars

\* C14 witness: the view was torn down while a source was emitting, and
\* its context is closed.
C14_Witness ==
    /\ ~alive
    /\ tornFrom = "playing"
    /\ ctxState = "closed"
    /\ started = <<>>

\* C15: a ready segment has a buffer and a segment in error has none.
C15_StatusMatchesBuffer ==
    \A k \in 1 .. Len(segments) :
        /\ segments[k].status = "ready" => segments[k].buffer # NoBuf
        /\ segments[k].status = "error" => segments[k].buffer = NoBuf

\* C16 as stated: once the controller has gone past the last segment of
\* this session, no source is started again in the session.
C16_FinishedIsTerminal ==
    finished # "no" => started = <<>>

\* C16 amended: after the controller has gone past the last segment it is
\* not playing, at index 0 with offset 0 and without a source until a toggle
\* handler sets playing again; the source that then starts plays from
\* offset 0 the first segment that is not in error.
C16_FinishedResetsForReplay ==
    /\ [](finished = "yes" =>
            /\ ~isPlaying
            /\ currentSegmentIndex = 0
            /\ pauseTimeRef = 0
            /\ sourceNodeRef = NoSource
            /\ started = <<>>)
    /\ [][(finished = "yes" /\ SourceStarts /\ session' = session)
            => /\ finished' = "replayed"
               /\ sourceNodeRef'.offset = 0
               /\ \A i \in 0 .. (sourceNodeRef'.idx - 1) :
                     StatusAt(segments', i) = "error"]_vars

\* C16 witness: a segment that already played to its end in this session
\* is emitting again after the controller had finished.
C16_Witness ==
    /\ session = 1
    /\ finished = "replayed"
    /\ sourceNodeRef # NoSource
    /\ sourceNodeRef.idx \in done
    /\ Len(segments) = 2

\* C17: whenever sourceNodeRef holds a source, isPlaying is true,
\* currentSegmentIndex is in range, the source is the started one, and it
\* was created for that segment, which is ready, from that segment's buffer.
C17_SourceMatchesCurrentSegment ==
    sourceNodeRef # NoSource =>
        /\ isPlaying
        /\ started = <<sourceNodeRef>>
        /\ currentSegmentIndex < Len(segments)
        /\ sourceNodeRef.idx = currentSegmentIndex
        /\ StatusAt(segments, currentSegmentIndex) = "ready"
        /\ sourceNodeRef.buf = segments[currentSegmentIndex + 1].buffer

\* C18: every step that starts a source leaves the context running, so no
\* source is started on a suspended or on a closed context.
C18_StartOnlyOnRunningContext ==
    [][SourceStarts => ctxState' = "running"]_vars

\* C19: every call of the narration-audio fetcher that has ended made one
\* request and resolved (never threw): to a buffer when the payload was
\* decoded, to null for a missing payload, a rate-limit or network error, a
\* failed resume of the decoding context and a failed decode.
C19_FetcherNeverThrowsNorRetries ==
    \A r \in settled :
        r.fn = "audio" =>
            /\ r.requests = 1
            /\ r.value \in {"buffer", "null"}
            /\ r.cause = "decoded" => r.value = "buffer"
            /\ r.cause \in {"empty", "rateLimit", "network",
                            "resumeFailed", "decodeFailed"}
                  => r.value = "null"

\* C19 witness: a narration-audio call ended after the resume of the
\* decoding context was rejected, and the app shell took the null.
C19_Witness ==
    /\ \E r \in settled :
          r.fn = "audio" /\ r.cause = "resumeFailed" /\ r.value = "null"
    /\ isAudioUnavailableApp
    /\ ~isGeneratingAudio

\* C20: an identification or detail call that ended on a rate-limit signal
\* had been retried 3 times, i.e. had made 1 + 3 requests.
C20_RateLimitRetried ==
    \A r \in settled :
        (r.fn \in {"identify", "details"} /\ r.cause = "rateLimit")
            => r.requests = 1 + 3

\* C29: isBuffering implies isPlaying, so the spinner is shown only while
\* the controller is playing and waits for the current segment.
C29_SpinnerOnlyWhilePlaying ==
    isBuffering => isPlaying

\* C30: while a started source is emitting on a running context, the control
\* rendered is the play/pause button.
C30_PauseAvailableWhileAudible ==
    (alive /\ sourceNodeRef # NoSource /\ ctxState = "running")
        => UIStatus(Cur) = "button"

\* C28: in an uninterrupted listening, once the controller is playing a
\* non-empty segment list on a running context and chunk 0 has not failed,
\* it eventually is finished: not playing, no source, index 0.
C28_EventuallyFinished ==
    (isPlaying /\ ctxState = "running" /\ chunks > 0 /\ ~absent0)
        ~> (/\ finished = "yes"
            /\ ~isPlaying
            /\ sourceNodeRef = NoSource
            /\ currentSegmentIndex = 0)

\* C28 witness: three chunks, the first played to its end, both later ones
\* failed and were skipped, and the controller is finished.
C28_Witness ==
    /\ finished = "yes"
    /\ chunks = 3
    /\ StatusAt(segments, 0) = "ready"
    /\ StatusAt(segments, 1) = "error"
    /\ StatusAt(segments, 2) = "error"
    /\ done = {0, 1, 2}
    /\ ~isPlaying


\* C25 (as stated): every utterance speakNative creates is requested
\* exactly once: at once when voices were available at the call, otherwise
\* on the first voiceschanged event after the call and never again.
C25_SpeakExactlyOnce ==
    \A c \in DOMAIN speakLog :
        speakLog[c].requests =
            IF speakLog[c].voices \/ speakLog[c].events >= 1 THEN 1 ELSE 0

\* C25 (amended): an utterance is requested at most once: at once when
\* voices were available at the call; otherwise on the first voiceschanged
\* event after the call, unless a later speakNative call has taken over
\* the onvoiceschanged handler before that event, in which case never.
C25_SpeakAtMostOnce ==
    \A c \in DOMAIN speakLog :
        speakLog[c].requests =
            IF speakLog[c].voices THEN 1
            ELSE IF speakLog[c].events >= 1 /\ ~speakLog[c].replaced THEN 1
            ELSE 0

\* C25 witness: a deferred utterance has seen two voiceschanged events and
\* was requested once, and an utterance made with voices available exists.
C25_Witness ==
    /\ \E c \in DOMAIN speakLog :
        /\ ~speakLog[c].voices
        /\ speakLog[c].events = 2
        /\ speakLog[c].requests = 1
    /\ \E c \in DOMAIN speakLog :
        speakLog[c].voices /\ speakLog[c].requests = 1


\* The states of the single-buffer view's audio graph that stopAiAudio can
\* meet: no source; a source that plays; a source that has ended while
\* its ended event is still to be delivered.
StoppableViews ==
    {[BlankView EXCEPT !.sourceNodeRef = r,
                       !.playing = IF live THEN {r} ELSE {},
                       !.onended = {r},
                       !.audioContextRef = "running",
                       !.isPlaying = b, !.pauseTimeRef = t] :
        r \in {1}, live \in BOOLEAN, b \in BOOLEAN, t \in 0 .. 1}
    \cup {[BlankView EXCEPT !.audioContextRef = a, !.isPlaying = b,
                            !.pauseTimeRef = t] :
        a \in {"none", "running"}, b \in BOOLEAN, t \in 0 .. 1}

\* C26: stopping is idempotent. In every reachable state of the segmented
\* player a second stopAudio changes nothing after the first, which leaves
\* no source, playback off, offset 0 and index 0; stop() is only ever
\* called on a node that was started, so it does not raise. stopAiAudio of
\* the single-buffer view is idempotent too and leaves no source, with the
\* errors of stop() and disconnect() caught.
C26_StopIdempotent ==
    /\ LET once == stopAudio(Cur) IN
           /\ stopAudio(once) = once
           /\ once.sourceNodeRef = NoSource
           /\ once.started = <<>>
           /\ ~once.isPlaying
           /\ ~once.isBuffering
           /\ once.pauseTimeRef = 0
           /\ once.currentSegmentIndex = 0
    /\ sourceNodeRef # NoSource => sourceNodeRef \in Range(started)
    /\ \A v \in StoppableViews :
           LET once == stopAiAudio(v) IN
               /\ stopAiAudio(once) = once
               /\ once.sourceNodeRef = NoNode
               /\ once.playing = {}
               /\ once.onended = {}

\* C26 witness: the player was stopped by a landmark change and stopped
\* again by the unmount, the second time with nothing active.
C26_Witness ==
    /\ ~alive
    /\ session >= 2
    /\ tornFrom = "idle"
    /\ Cur = stopAudio(Cur)


\* C21 (as stated): an identification or detail call that fails puts the
\* app in ERROR with a message; ERROR always shows a message; and a step
\* that leaves ERROR is the user's reset: it goes to IDLE, clears the
\* message and settles no call and starts none.
C21_ErrorLeftOnlyByReset ==
    /\ [](state = "ERROR" => errorMsg # "")
    /\ [][/\ (\E r \in settled' \ settled :
                  r.fn \in {"identify", "details"} /\ r.value = "thrown")
              => (state' = "ERROR" /\ errorMsg' # "")
          /\ (state = "ERROR" /\ state' # "ERROR")
              => /\ state' = "IDLE"
                 /\ errorMsg' = ""
                 /\ settled' = settled
                 /\ calls' = calls
                 /\ reading' = reading]_vars


\* C24: at most one decoding context is ever created, it exists exactly
\* when the module variable is set, and every decode was handed that one.
C24_OneDecodingContext ==
    /\ contexts <= 1
    /\ contexts = 0 <=> decodingContext = "none"
    /\ decodedWith \subseteq {1}

\* C24 witness: two narration calls have passed their payload to
\* decodeAudioData, each after fetching the decoding context, and one
\* context exists, running.
C24_Witness ==
    /\ Cardinality({r \in settled : r.fn = "audio"
                                       /\ r.cause \in DecodeOutcomes}) = 2
    /\ decodingContext = "running"
    /\ contexts = 1
    /\ decodedWith = {1}


\* C22: while no write has failed for a user, the stored list is exactly
\* the newest items saved for that user, at most 50 of them, newest first
\* with the item saved last at the head; what is missing are the oldest.
C22_NewestFiftyKept ==
    \A u \in Users :
        ~failed[u] =>
            /\ Len(getHistory(u)) <= 50
            /\ getHistory(u) = SubSeq(savedFor[u], 1, Len(getHistory(u)))
            /\ Len(getHistory(u)) = IF Len(savedFor[u]) < 50
                                THEN Len(savedFor[u]) ELSE 50
            /\ \A i \in 1 .. Len(getHistory(u)) - 1 :
                   getHistory(u)[i] > getHistory(u)[i + 1]
            /\ (lastSave.user = u /\ getHistory(u) # <<>>)
                   => Head(getHistory(u)) = lastSave.item

\* C22 witness: a user whose stored list was full has saved two more items
\* and the two oldest are gone.
C22_Witness ==
    \E u \in Users :
        /\ ~failed[u]
        /\ Len(savedFor[u]) = 52
        /\ Len(getHistory(u)) = 50
        /\ lastSave.user = u

\* C23: saveHistoryItem never throws. After a quota error on the first
\* write it retries with the oldest item dropped, one more each time, and
\* stops at the first list that is written or after the one-item list
\* failed; after any other error it does not retry. A call that wrote
\* nothing leaves the stored list as it was.
C23_SaveNeverThrows ==
    lastSave # NoSave =>
        LET full == <<lastSave.item>> \o lastSave.before
            n == IF Len(full) > 50 THEN 50 ELSE Len(full)
            k == IF lastSave.fit < n - 1 THEN lastSave.fit ELSE n - 1
        IN  /\ ~lastSave.thrown
            /\ lastSave.first = "ok" =>
                   /\ lastSave.writes = 1
                   /\ lastSave.after = SubSeq(full, 1, n)
            /\ lastSave.first = "other" =>
                   /\ lastSave.writes = 1
                   /\ lastSave.after = lastSave.before
            /\ lastSave.first = "quota" =>
                   IF k >= 1
                   THEN /\ lastSave.writes = 1 + (n - k)
                        /\ lastSave.after = SubSeq(full, 1, k)
                   ELSE /\ lastSave.writes = n
                        /\ lastSave.after = lastSave.before

\* C23 witness: a call met a quota error with a full list, dropped the
\* three oldest of its 50 items in three retries and stored the other 47.
C23_Witness ==
    /\ lastSave # NoSave
    /\ lastSave.first = "quota"
    /\ Len(lastSave.before) = 50
    /\ lastSave.writes = 4
    /\ getHistory(lastSave.user) = lastSave.after
    /\ Len(lastSave.after) = 47
    /\ Head(lastSave.after) = lastSave.item


\* text is the chunks cs in order, with blanks only before, between and
\* after them.
RECURSIVE Rebuilds(_, _)
Rebuilds(text, cs) ==
    LET t == TrimLeft(text) IN
    IF cs = <<>> THEN t = <<>>
    ELSE LET c == Head(cs) IN
         /\ Len(c) <= Len(t)
         /\ SubSeq(t, 1, Len(c)) = c
         /\ Rebuilds(SubSeq(t, Len(c) + 1, Len(t)), Tail(cs))

\* C27: the chunks of a non-empty narration text, in order, rebuild the
\* text up to blanks at the chunk boundaries; no chunk is blank.
C27_ChunksRebuildText ==
    (textChunks # Unset /\ detailedInfo # <<>>) =>
        /\ Rebuilds(detailedInfo, textChunks)
        /\ \A i \in DOMAIN textChunks : TrimLeft(textChunks[i]) # <<>>

\* C27 witness: a text of two sentences and an unterminated rest was split
\* into two chunks.
C27_Witness ==
    /\ detailedInfo = <<"a", ".", "b", ".", "a">>
    /\ textChunks = <<(<<"a", ".", "b", ".">>), (<<"a">>)>>


\* C37: when the first write of a save met a quota error, what the call
\* stored is either the list as it was before the call (no write was
\* accepted) or a list headed by the new item followed by the newest of the
\* older items: the items dropped are the oldest, never the new one.
C37_TrimKeepsNewItem ==
    /\ (lastSave # NoSave /\ lastSave.first = "other") =>
           lastSave.after = lastSave.before
    /\ (lastSave # NoSave /\ lastSave.first = "quota") =>
        \/ /\ lastSave.after = lastSave.before
           /\ lastSave.fit = 0 \/ lastSave.before = <<>>
        \/ /\ lastSave.after # <<>>
           /\ Head(lastSave.after) = lastSave.item
           /\ Len(lastSave.after) <= Len(lastSave.before)
           /\ Tail(lastSave.after) =
                  SubSeq(lastSave.before, 1, Len(lastSave.after) - 1)

\* C37 witness: a save onto a full list was trimmed down to the new item
\* alone, which was then written and is what the store holds.
C37_Witness ==
    /\ lastSave # NoSave
    /\ lastSave.first = "quota"
    /\ Len(lastSave.before) = 50
    /\ lastSave.after = <<lastSave.item>>
    /\ getHistory(lastSave.user) = <<lastSave.item>>

\* C38: a save for one user leaves every other user's stored list as it
\* was; a clear for one user leaves that user's list empty and every other
\* user's list as it was.
C38_PerUserHistory ==
    [][/\ lastSave' # lastSave =>
              \A v \in Users \ {lastSave'.user} :
                  stored'[key(v)] = stored[key(v)]
       /\ (lastClear' # lastClear /\ lastClear' # "") =>
              /\ stored'[key(lastClear')] = <<>>
              /\ \A v \in Users \ {lastClear'} :
                     stored'[key(v)] = stored[key(v)]]_vars

\* C38 witness: one user has saved onto a full list and then the other
\* user's list was cleared: the first list is still what the save stored.
C38_Witness ==
    /\ lastSave # NoSave
    /\ lastClear # ""
    /\ lastClear # lastSave.user
    /\ getHistory(lastClear) = <<>>
    /\ getHistory(lastSave.user) = lastSave.after
    /\ Len(lastSave.after) = 50

\* C33: the unavailable flag is set only if the current session's segment
\* list is empty or the current session's fetch for index 0 came back
\* without a buffer.
C33_FlagDescribesCurrentLandmark ==
    (alive /\ isAudioUnavailable) => (chunks = 0 \/ absent0)

\* The moves of one segment's status the claim C31 allows.
StatusMoves ==
    {<<"pending", "loading">>, <<"loading", "ready">>, <<"loading", "error">>}

\* C31: within one session the segment list keeps its length and each
\* segment's status stays as it is or moves pending -> loading,
\* loading -> ready or loading -> error.
C31_StatusOnlyAdvances ==
    [][(session' = session /\ alive') =>
          /\ Len(segments') = Len(segments)
          /\ \A k \in 1 .. Len(segments) :
                \/ segments'[k].status = segments[k].status
                \/ <<segments[k].status, segments'[k].status>> \in StatusMoves
      ]_vars

\* The fetches in flight that the current session issued.
OwnInflight == {f \in BagToSet(inflight) : f.gen = session}

\* C32: at most one fetch issued by the current session is in flight, and
\* while a fetch for index i + 1 of the current session is in flight,
\* segment i is ready or error.
C32_OneFetchInFlight ==
    alive =>
        /\ \A f \in OwnInflight : CopiesIn(f, inflight) = 1
        /\ Cardinality(OwnInflight) <= 1
        /\ \A f \in OwnInflight :
              (f.idx > 0 /\ f.idx <= Len(segments)) =>
                  segments[f.idx].status \in {"ready", "error"}

\* C35: while the app is in IDLE (no file chosen since the reset), a call
\* that settles leaves the phase, the displayed result and the error
\* message as they are. In IDLE every call in flight was started before the
\* reset that led there.
C35_ResetDropsCompletions ==
    [][(state = "IDLE" /\ settled' # settled) =>
          /\ state' = "IDLE"
          /\ result' = result
          /\ errorMsg' = errorMsg]_vars

\* C36: a step in which the narration-audio call for landmark X ends
\* changes the result only if a result is displayed whose landmarkName is
\* X, and then only its audioBuffer, to what the call returned; a call that
\* returned a buffer while such a result is displayed attaches it.
C36_BufferOnlyForItsLandmark ==
    [][\A c \in calls :
          (c.fn = "audio"
             /\ \E r \in settled' \ settled : r.id = c.id) =>
          LET r == CHOOSE r \in settled' \ settled : r.id = c.id
              shown == result # NoResult /\ result.landmarkName = c.landmark
          IN  /\ result' # result =>
                    (shown /\ result' = [result EXCEPT !.audioBuffer = r.value])
              /\ ~shown => result' = result
              /\ (shown /\ r.value = "buffer") =>
                    result'.audioBuffer = "buffer"]_vars

\* C36 witness: a narration-audio call has returned a buffer while the
\* result of a later selection (whose own call is still in flight) was
\* displayed, and that result has no buffer: the call was for another
\* landmark (isGeneratingAudio was cleared by the call that ended, after
\* the later selection had set it).
C36_Witness ==
    /\ result # NoResult
    /\ result.audioBuffer = "null"
    /\ ~isGeneratingAudio
    /\ \E c \in calls : \E r \in settled :
          /\ c.fn = "audio"
          /\ c.landmark = result.landmarkName
          /\ r.fn = "audio"
          /\ r.value = "buffer"
          /\ r.id < c.id
          /\ settled = {r}

\* The narration sources that sound: started, neither stopped nor ended,
\* on a context that runs.
ActiveSources ==
    UNION {IF cards[i].audioContextRef = "running" THEN cards[i].playing
           ELSE {} : i \in 1 .. Len(cards)}

\* C34: at most one narration source is active, no instance has more than
\* one source started and not stopped, and the lock of an instance is held
\* exactly while one playAudio call of that instance waits for the resume:
\* every call that took the lock has released it when it is over, started
\* or failed.
C34_LockKeepsOneSource ==
    /\ Cardinality(ActiveSources) <= 1
    /\ \A i \in 1 .. Len(cards) :
          /\ Cardinality(cards[i].playing) <= 1
          /\ Cardinality({c \in playCalls : c.card = i}) <= 1
          /\ cards[i].isAudioOpInProgress <=>
                 (\E c \in playCalls : c.card = i)

\* C34 witness: the lock turned away a click and the auto-play effect
\* while a call was waiting for the resume, and now a single source is
\* active with the lock free.
C34_Witness ==
    /\ refused = {"click", "auto"}
    /\ playCalls = {}
    /\ OnScreen
    /\ ~cards[Len(cards)].isAudioOpInProgress
    /\ cards[Len(cards)].isPlaying
    /\ ActiveSources = {cards[Len(cards)].sourceNodeRef}

====
